---------------------------- MODULE Spec2Model ----------------------------
(***************************************************************************)
(* Debt-payoff simulation and consolidation-eligibility engine             *)
(* (backend/app/services/analysis_service.py) over the mock data store     *)
(* (backend/app/db/database.py).                                           *)
(*                                                                         *)
(* Number representation.  The code computes in binary floating point.     *)
(* Here money is held in cents (Cent units per currency unit), annual      *)
(* rates and percentages in tenths of a percent, and every arithmetic      *)
(* result is rounded to the nearest cent.  The residue threshold 1e-6 of   *)
(* the code lies below one cent, so "x > 1e-6" is "x > Eps" with Eps = 0   *)
(* on the cent grid.                                                       *)
(***************************************************************************)
EXTENDS Integers, Sequences, FiniteSets, TLC

(***************************************************************************)
(* Units and program constants                                             *)
(***************************************************************************)
Cent == 100
\* tenths of a percent per unit: x * pct / 100 is x * tenths / PctScale
PctScale == 1000
\* annual_rate_pct / 100 / 12 is tenths / RateScale
RateScale == 12000
\* scale of the fixed-point annuity factor; a multiple of RateScale, so the
\* monthly rate r and 1 + r are represented exactly
FactorScale == 1200000
\* the "active" threshold 1e-6, on the cent grid
Eps == 0
\* while not done() and months < 1000
MaxMonths == 1000
\* interest + 1.0
CardFloor == 100

(***************************************************************************)
(* Bounds of the model                                                     *)
(***************************************************************************)
MaxLoans == 2
MaxCards == 1
MaxOffers == 2
\* longest remaining term of an interest-bearing loan drawn at Init
MaxTerm == 36

(***************************************************************************)
(* Arithmetic                                                              *)
(***************************************************************************)
Max(a, b) == IF a >= b THEN a ELSE b
Min(a, b) == IF a <= b THEN a ELSE b

\* a / b rounded to the nearest integer (a >= 0, b > 0)
RoundDiv(a, b) == (a + (b \div 2)) \div b

\* <<q, rem>> with a * b = q * c + rem and 0 <= rem < c, b taken eight bits at
\* a time so that no intermediate is above 256 * (c + a)
RECURSIVE MulDivRem(_, _, _)
MulDivRem(a, b, c) ==
    IF b = 0 THEN <<0, 0>>
    ELSE LET h == MulDivRem(a, b \div 256, c)
             t == 256 * h[2] + (b % 256) * a
         IN <<256 * h[1] + (t \div c), t % c>>

\* a * b / c rounded to the nearest integer
MulDiv(a, b, c) ==
    IF a = 0 \/ b = 0 THEN 0
    ELSE LET qr == MulDivRem(a, b, c)
         IN qr[1] + (IF 2 * qr[2] >= c THEN 1 ELSE 0)


(***************************************************************************)
(* _pmt: the payment of the current period                                 *)
(***************************************************************************)
\* (1 + r)^n at scale FactorScale, r = rate / RateScale
RECURSIVE PowOnePlusR(_, _)
PowOnePlusR(rate, n) ==
    IF n = 0 THEN FactorScale
    ELSE LET x == PowOnePlusR(rate, n - 1)
         IN x + MulDiv(rate * (FactorScale \div RateScale), x, FactorScale)

\* r * (1 + r)^n / ((1 + r)^n - 1) at scale FactorScale
AnnuityFactor(rate, n) ==
    LET x == PowOnePlusR(rate, n)
    IN MulDiv(rate * (FactorScale \div RateScale), x, x - FactorScale)

\* rates and terms for which the factor is tabulated once
TabulatedRates == {120, 285, 350, 400, 450}
TabulatedTerms == 1 .. (MaxTerm + 1)
AnnuityTable ==
    [rate \in TabulatedRates |-> [n \in TabulatedTerms |-> AnnuityFactor(rate, n)]]

Pmt(principal, annual_rate_pct, n_months) ==
    IF n_months <= 0 THEN principal
    ELSE IF annual_rate_pct = 0 THEN RoundDiv(principal, n_months)
    ELSE IF annual_rate_pct \in TabulatedRates /\ n_months \in TabulatedTerms
         THEN MulDiv(AnnuityTable[annual_rate_pct][n_months], principal, FactorScale)
         ELSE MulDiv(AnnuityFactor(annual_rate_pct, n_months), principal, FactorScale)

\* balance * annual_rate_pct / 100 / 12
MonthlyInterest(balance, annual_rate_pct) ==
    RoundDiv(balance * annual_rate_pct, RateScale)

Active(balance) == balance > Eps

(***************************************************************************)
(* The data store (MockDatabase) and the inputs of the calls               *)
(***************************************************************************)
Customers == {"CU-001", "CU-404"}

Loan(p, r, n, dpd, t) ==
    [customer_id |-> "CU-001", product_type |-> t, principal |-> p,
     annual_rate_pct |-> r, remaining_term_months |-> n, days_past_due |-> dpd]

Card(b, r, m, dpd) ==
    [customer_id |-> "CU-001", balance |-> b, annual_rate_pct |-> r,
     min_payment_pct |-> m, days_past_due |-> dpd]

Cashflow(inc, var, ess) ==
    [customer_id |-> "CU-001", monthly_income_avg |-> inc,
     income_variability_pct |-> var, essential_expenses_avg |-> ess]

\* rows the loans table is drawn from, in table order
LoanPool ==
    << Loan(1800000, 285, MaxTerm, 0, "personal"),
       Loan(1200000, 0, 12, 0, "personal"),
       Loan(50000, 350, 3, 15, "micro"),
       Loan(40000, 350, 2, 0, "personal"),
       Loan(10000, 120, 0, 0, "micro"),
       Loan(0, 120, 5, 0, "personal") >>

\* rows the cards table is drawn from
CardPool ==
    << Card(500, 450, 40, 5),
       Card(250, 350, 1000, 0) >>

\* instruments that do not pay off within MaxMonths under minimum payments
SlowLoan == Loan(120000, 0, 1200, 0, "personal")
SlowCard == Card(150000, 0, 0, 0)
\* the card of CU-001 in the code's table
RealCard == Card(350000, 450, 50, 0)

CashflowPool ==
    { <<>>,
      << Cashflow(350000, 100, 180000) >>,
      << Cashflow(100000, 500, 60000) >>,
      << Cashflow(30000, 0, 28000) >> }

\* ConsolidationOffer
Offer(id, types, rate, term, cap, text) ==
    [offer_id |-> id, product_types_eligible |-> types, new_rate_pct |-> rate,
     max_term_months |-> term, max_consolidated_balance |-> cap, conditions |-> text]

OfferPool ==
    { Offer("OF-1", {"personal", "card"}, 199, 48, 2500000, ""),
      Offer("OF-2", {"personal"}, 150, 60, 1000000, "No active delinquency"),
      Offer("OF-3", {"micro"}, 199, 2, 100000, "None"),
      Offer("OF-4", {"card", "micro"}, 250, 12, 60000, "   ") }

\* the lists of distinct offers of the pool with at most k offers
OfferLists(k) ==
    { l \in UNION { [1 .. n -> OfferPool] : n \in 0 .. k } :
        \A i, j \in 1 .. Len(l) : i # j => l[i] # l[j] }

CreditScores == {720}

\* the subsequences of s with at most k elements, order kept
RECURSIVE SubSeqs(_, _)
SubSeqs(s, k) ==
    IF s = <<>> \/ k = 0 THEN { <<>> }
    ELSE SubSeqs(Tail(s), k) \cup { <<Head(s)>> \o t : t \in SubSeqs(Tail(s), k - 1) }

\* every choice of at most MaxLoans loans and MaxCards cards of the pools
InstrumentSets ==
    { <<ls, cs>> : ls \in SubSeqs(LoanPool, MaxLoans), cs \in SubSeqs(CardPool, MaxCards) }

\* the long-running snapshots: a loan and a card that outlast MaxMonths, and
\* the loan and card of CU-001 as the code's tables hold them
LongInstrumentSets ==
    { << <<SlowLoan>>, <<>> >>, << <<>>, <<SlowCard>> >>, << <<LoanPool[1]>>, <<RealCard>> >> }

Store(ic, cf, sc) ==
    [loans |-> ic[1], cards |-> ic[2], customer_cashflow |-> cf,
     credit_score_history |-> sc]

ScoreRows == << [customer_id |-> "CU-001", credit_score |-> 720] >>

\* the tables of the store: the rows of CU-001; CU-404 has no row in any table
Tables ==
    { Store(ic, cf, ScoreRows) : ic \in InstrumentSets, cf \in CashflowPool }
    \cup { Store(ic, cf, ScoreRows) : ic \in LongInstrumentSets,
                                      cf \in { c \in CashflowPool : c # <<>> } }
    \cup { Store(<< <<LoanPool[3]>>, <<CardPool[1]>> >>, cf, <<>>) : cf \in CashflowPool }

RowsOf(table, customer_id) ==
    SelectSeq(table, LAMBDA row : row.customer_id = customer_id)

\* MockDatabase.get_customer_data: the rows of one customer, copied
GetCustomerData(store, customer_id) ==
    [loans |-> RowsOf(store.loans, customer_id),
     cards |-> RowsOf(store.cards, customer_id),
     credit_score_history |-> RowsOf(store.credit_score_history, customer_id),
     customer_cashflow |-> RowsOf(store.customer_cashflow, customer_id)]

(***************************************************************************)
(* State                                                                   *)
(***************************************************************************)
VARIABLES
    db,              \* the tables of the data store
    pc,              \* where the call in progress stands; "idle" between calls,
                     \* "returned" while the caller holds the outcome
    call,            \* the call in progress: operation and arguments
    loans_df,        \* working copy of the loans of the call
    cards_df,        \* working copy of the cards of the call
    months,          \* month counter of the simulation in progress
    total_interest,  \* interest accrued by the simulation in progress
    budget,          \* monthly budget of the simulation in progress
    ret,             \* what the finished call handed to its caller
    prev,            \* the last result a simulator returned to the caller,
                     \* forgotten when a call of another operation starts
    analysis,        \* the locals of analyze_customer_debt while it runs
    elig,            \* progress of "for offer in offers"
    threads,         \* the simulations that run side by side on worker threads:
                     \* the locals of each
    http             \* the response of POST /analysis/simulate-consolidation,
                     \* while its caller holds it

vars == <<db, pc, call, loans_df, cards_df, months, total_interest, budget, ret,
          prev, analysis, elig, threads, http>>

NoCall == [op |-> "none"]
NoReturn == [op |-> "none"]
NoResult == [op |-> "none", customer_id |-> "none"]
NoAnalysis == [stage |-> "none"]
NoResponse == [status_code |-> 0]
\* the worker threads
Threads == {"t1", "t2"}
\* a thread that runs nothing
IdleThread == [pc |-> "ready"]
NoThreads == [t \in Threads |-> IdleThread]
NoElig == [idx |-> 0, eligible |-> <<>>, ai_used_count |-> 0, ai_calls |-> <<>>,
           raised |-> <<>>]

SeqSum(s) ==
    LET RECURSIVE Sum(_)
        Sum(i) == IF i = 0 THEN 0 ELSE s[i] + Sum(i - 1)
    IN Sum(Len(s))

\* the rows of one customer in a table replaced by the rows of a frame
ReplaceRows(table, customer_id, frame) ==
    LET own == { i \in 1 .. Len(table) : table[i].customer_id = customer_id }
        rank(i) == Cardinality({ j \in own : j <= i })
    IN [i \in 1 .. Len(table) |->
           IF i \in own /\ rank(i) <= Len(frame) THEN frame[rank(i)] ELSE table[i]]

\* a simulator that writes to the table it was handed
CanonicalLoans_Aliased(store, customer_id, loans) ==
    ReplaceRows(store.loans, customer_id, loans)

\* the loans table after a simulator has written to its loans_df: the frame
\* is a copy (get_customer_data copies, the simulator copies again), so the
\* table keeps its rows
CanonicalLoans(store, customer_id, loans) == store.loans

\* a simulator that writes to the cards table it was handed
CanonicalCards_Aliased(store, customer_id, cards) ==
    ReplaceRows(store.cards, customer_id, cards)

\* the cards table after a simulator has written to its cards_df
CanonicalCards(store, customer_id, cards) == store.cards

\* done() that looks at the loans alone
Done_LoansOnly(loans, cards) ==
    \A i \in 1 .. Len(loans) : loans[i].principal <= Eps

\* done(): every principal and every balance is at most 1e-6
Done(loans, cards) ==
    /\ \A i \in 1 .. Len(loans) : loans[i].principal <= Eps
    /\ \A i \in 1 .. Len(cards) : cards[i].balance <= Eps

\* interest of the month over the active rows
LoanInterest(loans) ==
    SeqSum([i \in 1 .. Len(loans) |->
        IF Active(loans[i].principal)
        THEN MonthlyInterest(loans[i].principal, loans[i].annual_rate_pct) ELSE 0])

CardInterest(cards) ==
    SeqSum([i \in 1 .. Len(cards) |->
        IF Active(cards[i].balance)
        THEN MonthlyInterest(cards[i].balance, cards[i].annual_rate_pct) ELSE 0])

\* _pmt on the remaining term as stored, not clipped
LoanPayment_RawTerm(loan) ==
    Pmt(loan.principal, loan.annual_rate_pct, loan.remaining_term_months)

\* the scheduled payment of a loan: _pmt on the term clipped at 1
LoanPayment(loan) ==
    Pmt(loan.principal, loan.annual_rate_pct, Max(1, loan.remaining_term_months))

\* the percentage of the balance alone, without the floor
CardMinPayment_PctOnly(card) ==
    RoundDiv(card.balance * card.min_payment_pct, PctScale)

\* the minimum payment of a card
CardMinPayment(card) ==
    Max(RoundDiv(card.balance * card.min_payment_pct, PctScale),
        MonthlyInterest(card.balance, card.annual_rate_pct) + CardFloor)

(***************************************************************************)
(* simulate_minimum_payments                                               *)
(***************************************************************************)
\* the scheduled payment made, the remaining term left as it was
MinLoanStep_TermKept(loan) ==
    IF ~Active(loan.principal) THEN loan
    ELSE LET interest == MonthlyInterest(loan.principal, loan.annual_rate_pct)
             payoff == loan.principal + interest
             actual_payment == Min(LoanPayment(loan), payoff)
             principal_reduction == actual_payment - interest
         IN [loan EXCEPT !.principal = Max(0, loan.principal - principal_reduction)]

\* one month of one loan under its scheduled payment
MinLoanStep(loan) ==
    IF ~Active(loan.principal) THEN loan
    ELSE LET interest == MonthlyInterest(loan.principal, loan.annual_rate_pct)
             payoff == loan.principal + interest
             actual_payment == Min(LoanPayment(loan), payoff)
             principal_reduction == actual_payment - interest
         IN [loan EXCEPT
                !.principal = Max(0, loan.principal - principal_reduction),
                !.remaining_term_months = Max(1, loan.remaining_term_months - 1)]

\* the minimum payment taken in full, the balance not clamped
MinCardStep_NoClamp(card) ==
    IF ~Active(card.balance) THEN card
    ELSE LET interest == MonthlyInterest(card.balance, card.annual_rate_pct)
             principal_reduction == CardMinPayment(card) - interest
         IN [card EXCEPT !.balance = card.balance - principal_reduction]

\* one month of one card under its minimum payment
MinCardStep(card) ==
    IF ~Active(card.balance) THEN card
    ELSE LET interest == MonthlyInterest(card.balance, card.annual_rate_pct)
             payoff == card.balance + interest
             actual_payment == Min(CardMinPayment(card), payoff)
             principal_reduction == actual_payment - interest
         IN [card EXCEPT !.balance = Max(0, card.balance - principal_reduction)]

\* the loop without its month cap
LoopContinues_NoCap(loans, cards, m) == ~Done(loans, cards)

\* while not done() and months < 1000
LoopContinues(loans, cards, m) == ~Done(loans, cards) /\ m < MaxMonths

CallSimulateMinimumPayments(customer_id) ==
    /\ pc = "idle"
    /\ UNCHANGED <<threads, http>>
    /\ LET customer_data == GetCustomerData(db, customer_id)
       IN /\ loans_df' = customer_data.loans
          /\ cards_df' = customer_data.cards
    /\ call' = [op |-> "simulate_minimum_payments", customer_id |-> customer_id]
    /\ total_interest' = 0
    /\ months' = 0
    /\ pc' = "min_loop"
    /\ ret' = NoReturn
    /\ elig' = NoElig
    /\ UNCHANGED <<db, budget, prev, analysis>>

MinMonth ==
    /\ pc = "min_loop"
    /\ UNCHANGED <<threads, http>>
    /\ LoopContinues(loans_df, cards_df, months)
    /\ months' = months + 1
    /\ total_interest' = total_interest + LoanInterest(loans_df) + CardInterest(cards_df)
    /\ loans_df' = [i \in 1 .. Len(loans_df) |-> MinLoanStep(loans_df[i])]
    /\ cards_df' = [i \in 1 .. Len(cards_df) |-> MinCardStep(cards_df[i])]
    /\ db' = [db EXCEPT !.loans = CanonicalLoans(db, call.customer_id, loans_df'),
                        !.cards = CanonicalCards(db, call.customer_id, cards_df')]
    /\ UNCHANGED <<pc, call, budget, ret, prev, analysis, elig>>

MinReturn ==
    /\ pc = "min_loop"
    /\ UNCHANGED <<threads, http>>
    /\ ~LoopContinues(loans_df, cards_df, months)
    /\ analysis = NoAnalysis
    /\ ret' = [op |-> call.op, customer_id |-> call.customer_id,
               status |-> "ok", months |-> months,
               total_interest |-> total_interest]
    /\ pc' = "returned"
    /\ call' = NoCall
    /\ UNCHANGED <<db, loans_df, cards_df, months, total_interest, budget, elig,
                   prev, analysis>>

(***************************************************************************)
(* simulate_optimized_payments (avalanche)                                 *)
(***************************************************************************)
\* max(0.0, income - essential - income * variability)
Budget(cashflow_row) ==
    Max(0, cashflow_row.monthly_income_avg - cashflow_row.essential_expenses_avg
           - RoundDiv(cashflow_row.monthly_income_avg * cashflow_row.income_variability_pct,
                      PctScale))

\* calculate_minimum_payments: total of the payments of the active rows
MinimumsTotal(loans, cards) ==
    SeqSum([i \in 1 .. Len(loans) |->
        IF Active(loans[i].principal) THEN LoanPayment(loans[i]) ELSE 0])
    + SeqSum([i \in 1 .. Len(cards) |->
        IF Active(cards[i].balance) THEN CardMinPayment(cards[i]) ELSE 0])

\* extra = max(0.0, budget - mins_total)
Extra(monthly_budget, mins_total) == Max(0, monthly_budget - mins_total)

\* "Apply minimum payments to loans": one loan, payment as calculate_minimum_payments gave it
OptLoanStep(loan) ==
    IF ~Active(loan.principal) THEN loan
    ELSE LET payment == LoanPayment(loan)
             interest == MonthlyInterest(loan.principal, loan.annual_rate_pct)
             payoff == loan.principal + interest
             actual_payment == Min(payment, payoff)
             principal_reduction == actual_payment - interest
         IN [loan EXCEPT
                !.principal = Max(0, loan.principal - principal_reduction),
                !.remaining_term_months = Max(1, loan.remaining_term_months - 1)]

\* the minimum payment of a card left out
OptCardStep_Skipped(card) == card

\* "Apply minimum payments to cards"
OptCardStep(card) ==
    IF ~Active(card.balance) THEN card
    ELSE LET payment == CardMinPayment(card)
             interest == MonthlyInterest(card.balance, card.annual_rate_pct)
             payoff == card.balance + interest
             actual_payment == Min(payment, payoff)
             principal_reduction == actual_payment - interest
         IN [card EXCEPT !.balance = Max(0, card.balance - principal_reduction)]

\* order of Python tuples of integers, first difference decides
LexLess(a, b) ==
    \E k \in 1 .. Len(a) :
        /\ a[k] < b[k]
        /\ \A j \in 1 .. (k - 1) : a[j] = b[j]

\* the two type names ordered the other way round
TypeRank_LoanFirst(debt_type) == IF debt_type = "loan" THEN 0 ELSE 1

\* 'card' < 'loan' as strings
TypeRank(debt_type) == IF debt_type = "card" THEN 0 ELSE 1

\* the tuples ranked by rate alone, days_past_due not looked at
PriorityCandidates_RateOnly(loans, cards, cure_dpd_first) ==
    { [type |-> "loan", idx |-> i,
       key |-> << 1, 0 - loans[i].annual_rate_pct, TypeRank("loan"), i >>] :
        i \in { j \in 1 .. Len(loans) : Active(loans[j].principal) } }
    \cup
    { [type |-> "card", idx |-> i,
       key |-> << 1, 0 - cards[i].annual_rate_pct, TypeRank("card"), i >>] :
        i \in { j \in 1 .. Len(cards) : Active(cards[j].balance) } }

\* the tuples get_priority_debt collects: ((tier, -rate), type, idx, balance)
PriorityCandidates(loans, cards, cure_dpd_first) ==
    { [type |-> "loan", idx |-> i,
       key |-> << IF cure_dpd_first /\ loans[i].days_past_due > 0 THEN 0 ELSE 1,
                  0 - loans[i].annual_rate_pct, TypeRank("loan"), i >>] :
        i \in { j \in 1 .. Len(loans) : Active(loans[j].principal) } }
    \cup
    { [type |-> "card", idx |-> i,
       key |-> << IF cure_dpd_first /\ cards[i].days_past_due > 0 THEN 0 ELSE 1,
                  0 - cards[i].annual_rate_pct, TypeRank("card"), i >>] :
        i \in { j \in 1 .. Len(cards) : Active(cards[j].balance) } }

NoDebt == [type |-> "none", idx |-> 0]

\* get_priority_debt: debts.sort(); debts[0]
GetPriorityDebt(loans, cards, cure_dpd_first) ==
    LET debts == PriorityCandidates(loans, cards, cure_dpd_first)
    IN IF debts = {} THEN NoDebt
       ELSE LET first == CHOOSE d \in debts :
                             \A e \in debts : e = d \/ LexLess(d.key, e.key)
            IN [type |-> first.type, idx |-> first.idx]

\* the extra payment added to the principal instead of taken off it
ApplyExtraLoans_Added(loans, debt, extra) ==
    [i \in 1 .. Len(loans) |->
        IF debt.type = "loan" /\ debt.idx = i
        THEN [loans[i] EXCEPT
                !.principal = Max(0, loans[i].principal + Min(extra, loans[i].principal))]
        ELSE loans[i]]

\* "Apply extra payment using avalanche method"
ApplyExtraLoans(loans, debt, extra) ==
    [i \in 1 .. Len(loans) |->
        IF debt.type = "loan" /\ debt.idx = i
        THEN [loans[i] EXCEPT
                !.principal = Max(0, loans[i].principal - Min(extra, loans[i].principal))]
        ELSE loans[i]]

\* the extra payment offered to every active card, whichever debt was chosen
ApplyExtraCards_Rollover(cards, debt, extra) ==
    [i \in 1 .. Len(cards) |->
        [cards[i] EXCEPT
            !.balance = Max(0, cards[i].balance - Min(extra, cards[i].balance))]]

ApplyExtraCards(cards, debt, extra) ==
    [i \in 1 .. Len(cards) |->
        IF debt.type = "card" /\ debt.idx = i
        THEN [cards[i] EXCEPT
                !.balance = Max(0, cards[i].balance - Min(extra, cards[i].balance))]
        ELSE cards[i]]

CallSimulateOptimizedPayments(customer_id, cure_dpd_first) ==
    /\ pc = "idle"
    /\ UNCHANGED <<threads, http>>
    /\ LET customer_data == GetCustomerData(db, customer_id)
       IN IF customer_data.customer_cashflow = <<>>
          THEN \* raise ValueError("No cashflow data found ...")
               /\ ret' = [op |-> "simulate_optimized_payments",
                          customer_id |-> customer_id, status |-> "ValueError"]
               /\ pc' = "returned"
               /\ UNCHANGED <<call, loans_df, cards_df, months, total_interest, budget>>
          ELSE /\ budget' = Budget(customer_data.customer_cashflow[1])
               /\ loans_df' = customer_data.loans
               /\ cards_df' = customer_data.cards
               /\ total_interest' = 0
               /\ months' = 0
               /\ call' = [op |-> "simulate_optimized_payments",
                           customer_id |-> customer_id,
                           cure_dpd_first |-> cure_dpd_first]
               /\ pc' = "opt_loop"
               /\ ret' = NoReturn
    /\ elig' = NoElig
    /\ UNCHANGED <<db, prev, analysis>>

OptMonth ==
    /\ pc = "opt_loop"
    /\ UNCHANGED <<threads, http>>
    /\ LoopContinues(loans_df, cards_df, months)
    /\ months' = months + 1
    /\ total_interest' = total_interest + LoanInterest(loans_df) + CardInterest(cards_df)
    /\ LET extra == Extra(budget, MinimumsTotal(loans_df, cards_df))
           loans_min == [i \in 1 .. Len(loans_df) |-> OptLoanStep(loans_df[i])]
           cards_min == [i \in 1 .. Len(cards_df) |-> OptCardStep(cards_df[i])]
           priority_debt == IF extra > Eps
                            THEN GetPriorityDebt(loans_min, cards_min, call.cure_dpd_first)
                            ELSE NoDebt
       IN /\ loans_df' = ApplyExtraLoans(loans_min, priority_debt, extra)
          /\ cards_df' = ApplyExtraCards(cards_min, priority_debt, extra)
    /\ db' = [db EXCEPT !.loans = CanonicalLoans(db, call.customer_id, loans_df'),
                        !.cards = CanonicalCards(db, call.customer_id, cards_df')]
    /\ UNCHANGED <<pc, call, budget, ret, prev, analysis, elig>>

OptReturn ==
    /\ pc = "opt_loop"
    /\ UNCHANGED <<threads, http>>
    /\ ~LoopContinues(loans_df, cards_df, months)
    /\ analysis = NoAnalysis
    /\ ret' = [op |-> call.op, customer_id |-> call.customer_id, status |-> "ok",
               cure_dpd_first |-> call.cure_dpd_first,
               months |-> months, total_interest |-> total_interest]
    /\ pc' = "returned"
    /\ call' = NoCall
    /\ UNCHANGED <<db, loans_df, cards_df, months, total_interest, budget, prev, analysis, elig>>

(***************************************************************************)
(* Eligibility: _check_basic_eligibility, _check_eligibility_with_ai,      *)
(* AzureAIService.evaluate_consolidation_conditions, get_eligible_offers   *)
(***************************************************************************)
ConditionTexts == {"", "   ", "none", "None", "none specified", "No active delinquency"}

\* str.strip() and str.lower() on the texts above
Strip(text) == IF text = "   " THEN "" ELSE text
Lower(text) ==
    CASE text = "None" -> "none"
      [] text = "No active delinquency" -> "no active delinquency"
      [] OTHER -> text

\* offer.conditions and offer.conditions.strip()
\*     and offer.conditions.lower() not in ['none', 'none specified', '']
HasConditions(offer) ==
    /\ offer.conditions # ""
    /\ Strip(offer.conditions) # ""
    /\ Lower(offer.conditions) \notin {"none", "none specified", ""}

\* sum of the principals of the loans of an eligible type, plus every card
\* balance when "card" is an eligible type
EligibleDebt(customer_data, offer) ==
    LET loans == customer_data.loans
        cards == customer_data.cards
    IN SeqSum([i \in 1 .. Len(loans) |->
            IF loans[i].product_type \in offer.product_types_eligible
            THEN loans[i].principal ELSE 0])
       + (IF cards # <<>> /\ "card" \in offer.product_types_eligible
          THEN SeqSum([i \in 1 .. Len(cards) |-> cards[i].balance]) ELSE 0)

\* offer.max_term_months < loans_df['remaining_term_months'].max(); the maximum
\* of an empty column is NaN, and every comparison with NaN is false
TermTooShort(customer_data, offer) ==
    \E i \in 1 .. Len(customer_data.loans) :
        offer.max_term_months < customer_data.loans[i].remaining_term_months

\* the body of _check_basic_eligibility(self, customer_data, offer)
CheckBasicEligibility(customer_data, offer) ==
    LET eligible_debt == EligibleDebt(customer_data, offer)
    IN IF eligible_debt <= 0 THEN FALSE
       ELSE IF eligible_debt > offer.max_consolidated_balance THEN FALSE
       ELSE IF TermTooShort(customer_data, offer) THEN FALSE
       ELSE TRUE

\* parameters of _check_basic_eligibility after self
CheckBasicEligibilityParams == 2

\* a Python call: the positional arguments are bound to the parameters, and a
\* call with the wrong number of them raises TypeError before the body runs
CallCheckBasicEligibility(args) ==
    IF Len(args) # CheckBasicEligibilityParams
    THEN [raised |-> TRUE, value |-> FALSE]
    ELSE [raised |-> FALSE, value |-> CheckBasicEligibility(args[1], args[2])]

\* AzureAIService.azure_ai_manager after __init__: initialised or None; it
\* stays as it is for the whole call
AiManagers == BOOLEAN

\* what the AI service finds when it is asked: whether the manager was
\* initialised, and what the model answers ("raise": the invocation fails)
AiOutcomes == [manager : BOOLEAN, response : {"true", "false", "raise"}]

\* AzureAIService.evaluate_consolidation_conditions
EvaluateConsolidationConditions(offer, ai) ==
    IF ~ai.manager THEN TRUE
    ELSE IF offer.conditions = "" \/ Strip(offer.conditions) = ""
            \/ Lower(offer.conditions) \in {"none", "none specified"} THEN TRUE
    ELSE IF ai.response = "raise" THEN FALSE
    ELSE ai.response = "true"

\* a variant that asks the AI service about the conditions before the
\* deterministic checks are made
CheckEligibilityWithAi_AiFirst(customer_data, offer, credit_score, ai) ==
    LET basic == CallCheckBasicEligibility(<<customer_data, offer, credit_score>>)
    IN IF HasConditions(offer)
       THEN [raised |-> basic.raised,
             value |-> EvaluateConsolidationConditions(offer, ai) /\ basic.value,
             ai_calls |-> 1]
       ELSE [raised |-> basic.raised, value |-> basic.value, ai_calls |-> 0]

\* a variant that asks the AI service about every offer that is not rejected,
\* whatever its conditions text
CheckEligibilityWithAi_AlwaysAsks(customer_data, offer, credit_score, ai) ==
    LET basic == CallCheckBasicEligibility(<<customer_data, offer, credit_score>>)
    IN IF ~basic.raised /\ ~basic.value
       THEN [raised |-> FALSE, value |-> FALSE, ai_calls |-> 0]
       ELSE [raised |-> basic.raised,
             value |-> EvaluateConsolidationConditions(offer, ai),
             ai_calls |-> 1]

\* _check_eligibility_with_ai: whether it raised, its value, and how many
\* times it called evaluate_consolidation_conditions
CheckEligibilityWithAi(customer_data, offer, credit_score, ai) ==
    LET basic == CallCheckBasicEligibility(<<customer_data, offer, credit_score>>)
    IN IF basic.raised THEN [raised |-> TRUE, value |-> FALSE, ai_calls |-> 0]
       ELSE IF ~basic.value THEN [raised |-> FALSE, value |-> FALSE, ai_calls |-> 0]
       ELSE IF HasConditions(offer)
            THEN [raised |-> FALSE, value |-> EvaluateConsolidationConditions(offer, ai),
                  ai_calls |-> 1]
            ELSE [raised |-> FALSE, value |-> TRUE, ai_calls |-> 0]

\* sorted(eligible, key=lambda x: x.new_rate_pct): stable
RECURSIVE InsertByRate(_, _)
InsertByRate(sorted, offer) ==
    IF sorted = <<>> THEN <<offer>>
    ELSE IF sorted[Len(sorted)].new_rate_pct <= offer.new_rate_pct
         THEN Append(sorted, offer)
         ELSE Append(InsertByRate(SubSeq(sorted, 1, Len(sorted) - 1), offer),
                     sorted[Len(sorted)])

RECURSIVE SortByRate(_)
SortByRate(offers) ==
    IF offers = <<>> THEN <<>>
    ELSE InsertByRate(SortByRate(SubSeq(offers, 1, Len(offers) - 1)), offers[Len(offers)])

CallGetEligibleOffers(customer_id, offers, credit_score) ==
    /\ pc = "idle"
    /\ UNCHANGED <<threads, http>>
    /\ \E ai_manager \in AiManagers :
          call' = [op |-> "get_eligible_offers", customer_id |-> customer_id,
                   offers |-> offers, credit_score |-> credit_score,
                   ai_manager |-> ai_manager]
    /\ elig' = [NoElig EXCEPT !.idx = 1]
    /\ pc' = "elig_loop"
    /\ ret' = NoReturn
    /\ prev' = NoResult
    /\ UNCHANGED <<db, loans_df, cards_df, months, total_interest, budget, analysis>>

\* one pass of "for offer in offers", in get_eligible_offers called directly
\* or from simulate_consolidation
EligEvaluateOffer ==
    /\ pc = "elig_loop"
    /\ UNCHANGED <<threads, http>>
    /\ elig.idx <= Len(call.offers)
    /\ \E ai \in { a \in AiOutcomes : a.manager = call.ai_manager } :
         LET offer == call.offers[elig.idx]
             customer_data == GetCustomerData(db, call.customer_id)
             checked == CheckEligibilityWithAi(customer_data, offer, call.credit_score, ai)
         IN elig' = [idx |-> elig.idx + 1,
                     eligible |-> IF ~checked.raised /\ checked.value
                                  THEN Append(elig.eligible, offer) ELSE elig.eligible,
                     ai_used_count |-> IF ~checked.raised /\ HasConditions(offer)
                                       THEN elig.ai_used_count + 1 ELSE elig.ai_used_count,
                     ai_calls |-> Append(elig.ai_calls, checked.ai_calls),
                     raised |-> Append(elig.raised, checked.raised)]
    /\ UNCHANGED <<db, pc, call, loans_df, cards_df, months, total_interest, budget,
                   ret, prev, analysis>>

EligReturn ==
    /\ pc = "elig_loop"
    /\ UNCHANGED <<threads, http>>
    /\ call.op = "get_eligible_offers"
    /\ elig.idx > Len(call.offers)
    /\ ret' = [op |-> call.op, customer_id |-> call.customer_id, status |-> "ok",
               credit_score |-> call.credit_score,
               offers |-> call.offers,
               eligible_offers |-> SortByRate(elig.eligible),
               total_offers_evaluated |-> Len(call.offers)]
    /\ pc' = "returned"
    /\ call' = NoCall
    /\ UNCHANGED <<db, loans_df, cards_df, months, total_interest, budget, elig, prev, analysis>>

(***************************************************************************)
(* simulate_consolidation                                                  *)
(***************************************************************************)
\* the loans that stay outside the consolidation
RemainingLoans(loans, offer) ==
    SelectSeq(loans, LAMBDA loan : loan.product_type \notin offer.product_types_eligible)

\* every card stays unless "card" is an eligible type
RemainingCards(cards, offer) ==
    IF "card" \in offer.product_types_eligible THEN <<>> ELSE cards

\* min(consolidated_amount, offer.max_consolidated_balance)
ConsolidatedAmount(customer_data, offer) ==
    Min(EligibleDebt(customer_data, offer), offer.max_consolidated_balance)

\* the new consolidation loan
NewLoan(customer_id, offer, consolidated_amount) ==
    [customer_id |-> customer_id, product_type |-> "consolidation",
     principal |-> consolidated_amount, annual_rate_pct |-> offer.new_rate_pct,
     remaining_term_months |-> offer.max_term_months, days_past_due |-> 0]

\* "Pay loan minimums": one loan
ConsLoanStep(loan) ==
    IF ~Active(loan.principal) THEN loan
    ELSE LET term == Max(1, loan.remaining_term_months)
             min_payment == Pmt(loan.principal, loan.annual_rate_pct, term)
             interest == MonthlyInterest(loan.principal, loan.annual_rate_pct)
             principal_payment == Min(min_payment - interest, loan.principal)
         IN [loan EXCEPT
                !.principal = Max(0, loan.principal - principal_payment),
                !.remaining_term_months = Max(1, term - 1)]

\* "Pay card minimums": one card
ConsCardStep(card) ==
    IF ~Active(card.balance) THEN card
    ELSE LET interest == MonthlyInterest(card.balance, card.annual_rate_pct)
             min_payment == CardMinPayment(card)
             principal_payment == Min(min_payment - interest, card.balance)
         IN [card EXCEPT !.balance = Max(0, card.balance - principal_payment)]

\* the tuples (rate, type, idx) of the active rows
RateCandidates(loans, cards) ==
    { [type |-> "loan", idx |-> i,
       key |-> <<loans[i].annual_rate_pct, TypeRank("loan"), i>>] :
        i \in { j \in 1 .. Len(loans) : Active(loans[j].principal) } }
    \cup
    { [type |-> "card", idx |-> i,
       key |-> <<cards[i].annual_rate_pct, TypeRank("card"), i>>] :
        i \in { j \in 1 .. Len(cards) : Active(cards[j].balance) } }

\* all_debts.sort(reverse=True); all_debts[0]
HighestRateDebt(loans, cards) ==
    LET all_debts == RateCandidates(loans, cards)
    IN IF all_debts = {} THEN NoDebt
       ELSE LET first == CHOOSE d \in all_debts :
                             \A e \in all_debts : e = d \/ LexLess(e.key, d.key)
            IN [type |-> first.type, idx |-> first.idx]

\* the payoff loop of simulate_consolidation, run to its end
RECURSIVE ConsLoop(_, _, _, _, _)
ConsLoop(loans, cards, m, interest_so_far, monthly_budget) ==
    IF ~LoopContinues(loans, cards, m)
    THEN [months |-> m, total_interest |-> interest_so_far]
    ELSE LET interest_now == interest_so_far + LoanInterest(loans) + CardInterest(cards)
             total_min_needed == MinimumsTotal(loans, cards)
         IN IF monthly_budget < total_min_needed
            THEN \* cannot afford minimum payments, break
                 [months |-> m + 1, total_interest |-> interest_now]
            ELSE LET available_budget == monthly_budget - total_min_needed
                     loans_min == [i \in 1 .. Len(loans) |-> ConsLoanStep(loans[i])]
                     cards_min == [i \in 1 .. Len(cards) |-> ConsCardStep(cards[i])]
                     debt == IF available_budget > Eps
                             THEN HighestRateDebt(loans_min, cards_min) ELSE NoDebt
                 IN ConsLoop(ApplyExtraLoans(loans_min, debt, available_budget),
                             ApplyExtraCards(cards_min, debt, available_budget),
                             m + 1, interest_now, monthly_budget)

\* a variant that never takes the early return
NoEligibleOffers_Never(eligible_offers) == FALSE

\* if not eligible_offers_response.eligible_offers
NoEligibleOffers(eligible_offers) == eligible_offers = <<>>

\* simulate_consolidation after get_eligible_offers has returned
ConsolidationOutcome(customer_id, customer_data, eligible_offers, monthly_budget) ==
    IF NoEligibleOffers(eligible_offers)
    THEN [status |-> "None", loop_entered |-> FALSE]
    ELSE IF eligible_offers = <<>>
    THEN [status |-> "IndexError", loop_entered |-> FALSE]
    ELSE LET offer == eligible_offers[1]
             consolidated_amount == ConsolidatedAmount(customer_data, offer)
         IN IF consolidated_amount <= 0
            THEN [status |-> "None", loop_entered |-> FALSE]
            ELSE LET new_loan == NewLoan(customer_id, offer, consolidated_amount)
                     sim == ConsLoop(<<new_loan>> \o RemainingLoans(customer_data.loans, offer),
                                     RemainingCards(customer_data.cards, offer),
                                     0, 0, monthly_budget)
                 IN [status |-> "ok", loop_entered |-> TRUE,
                     offer_id |-> offer.offer_id, months |-> sim.months,
                     total_interest |-> sim.total_interest,
                     new_rate_pct |-> offer.new_rate_pct,
                     max_term_months |-> offer.max_term_months,
                     consolidated_amount |-> consolidated_amount,
                     new_loan |-> new_loan]

\* the classes an exception is an instance of: fastapi's HTTPException and
\* the built-in errors all derive from Exception, none of the others from
\* ValueError
ExceptionClasses(raised) == {raised, "Exception"}

\* the first handler of "except ValueError ... except Exception ..." whose
\* class the exception is an instance of
HandlerFor(raised) ==
    IF "ValueError" \in ExceptionClasses(raised) THEN "ValueError" ELSE "Exception"

\* POST /analysis/simulate-consolidation: the try block and its handlers,
\* given how the service call ended ("ok": a result, "None": no result,
\* otherwise the exception it raised)
SimulateConsolidationEndpoint(status) ==
    LET raised == IF status = "None" THEN "HTTPException" ELSE status
    IN IF status = "ok"
       THEN [status_code |-> 200, detail |-> "Consolidation simulation completed successfully"]
       ELSE IF HandlerFor(raised) = "ValueError"
       THEN [status_code |-> 404, detail |-> "No cashflow data found"]
       ELSE [status_code |-> 500,
             detail |-> IF status = "None"
                        THEN "Consolidation simulation failed: No eligible consolidation offers available"
                        ELSE "Consolidation simulation failed"]

CallSimulateConsolidation(customer_id, offers, credit_score) ==
    /\ pc = "idle"
    /\ UNCHANGED threads
    /\ LET customer_data == GetCustomerData(db, customer_id)
       IN IF customer_data.customer_cashflow = <<>>
          THEN \* raise ValueError("No cashflow data found ...")
               /\ ret' = [op |-> "simulate_consolidation", customer_id |-> customer_id,
                          status |-> "ValueError"]
               /\ http' = SimulateConsolidationEndpoint("ValueError")
               /\ elig' = NoElig
               /\ pc' = "returned"
               /\ UNCHANGED <<call, budget>>
          ELSE /\ budget' = Budget(customer_data.customer_cashflow[1])
               /\ \E ai_manager \in AiManagers :
                     call' = [op |-> "simulate_consolidation", customer_id |-> customer_id,
                              offers |-> offers, credit_score |-> credit_score,
                              ai_manager |-> ai_manager]
               \* self.get_eligible_offers(customer_id, offers, credit_score)
               /\ elig' = [NoElig EXCEPT !.idx = 1]
               /\ pc' = "elig_loop"
               /\ ret' = NoReturn
               /\ http' = NoResponse
    /\ prev' = NoResult
    /\ UNCHANGED <<db, loans_df, cards_df, months, total_interest, analysis>>

\* get_eligible_offers hands its sorted list back to simulate_consolidation,
\* which returns None or consolidates and simulates
ConsAfterEligibleOffers ==
    /\ pc = "elig_loop"
    /\ UNCHANGED threads
    /\ call.op = "simulate_consolidation"
    /\ elig.idx > Len(call.offers)
    /\ analysis = NoAnalysis
    /\ LET outcome == ConsolidationOutcome(call.customer_id,
                                           GetCustomerData(db, call.customer_id),
                                           SortByRate(elig.eligible), budget)
       IN /\ ret' = [op |-> call.op, customer_id |-> call.customer_id,
                     offers |-> call.offers, outcome |-> outcome,
                     status |-> outcome.status]
          /\ http' = SimulateConsolidationEndpoint(outcome.status)
    /\ pc' = "returned"
    /\ call' = NoCall
    /\ UNCHANGED <<db, loans_df, cards_df, months, total_interest, budget, elig, prev, analysis>>

(***************************************************************************)
(* analyze_customer_debt                                                   *)
(***************************************************************************)
\* the consolidation_offers argument: None (the default), or a list
NoneArg == [is_none |-> TRUE, list |-> <<>>]
ListArg(offers) == [is_none |-> FALSE, list |-> offers]
OfferArgs == {NoneArg} \cup { ListArg(l) : l \in OfferLists(MaxOffers) }

\* "if consolidation_offers": None and the empty list are false
Truthy(consolidation_offers) ==
    ~consolidation_offers.is_none /\ consolidation_offers.list # <<>>

\* a variant that never finds the history empty
NoScoreHistory_Never(customer_data) == FALSE

\* if customer_data['credit_score_history'].empty
NoScoreHistory(customer_data) == customer_data.credit_score_history = <<>>

\* customer_data['credit_score_history'].iloc[-1]['credit_score']
LatestScore(customer_data) ==
    customer_data.credit_score_history[Len(customer_data.credit_score_history)].credit_score

\* PaymentSimulationResult(months=..., total_interest=...)
PaymentSimulationResult(m, interest) == [months |-> m, total_interest |-> interest]

\* SavingsComparison of result a against result b
SavingsComparison(a, b) ==
    [interest_saved |-> a.total_interest - b.total_interest,
     months_saved |-> a.months - b.months]

\* simulate_consolidation was not called
NotCalled == [status |-> "not_called"]

\* a variant that sets the message whenever there is no consolidation result
ConsolidationFields_MessageAlways(consolidation_offers, min_result, opt_result, outcome) ==
    IF outcome.status = "ok"
    THEN [consolidation_option |-> <<outcome>>,
          consolidation_savings |->
              << [vs_minimum |-> SavingsComparison(min_result, outcome),
                  vs_optimized |-> SavingsComparison(opt_result, outcome)] >>,
          consolidation_message |-> <<>>]
    ELSE [consolidation_option |-> <<>>, consolidation_savings |-> <<>>,
          consolidation_message |-> <<"No eligible consolidation offers available">>]

\* the optional fields of DebtAnalysisResult; <<>> is None, <<x>> is x
ConsolidationFields(consolidation_offers, min_result, opt_result, outcome) ==
    IF ~Truthy(consolidation_offers)
    THEN [consolidation_option |-> <<>>, consolidation_savings |-> <<>>,
          consolidation_message |-> <<>>]
    ELSE IF outcome.status = "ok"
    THEN [consolidation_option |-> <<outcome>>,
          consolidation_savings |->
              << [vs_minimum |-> SavingsComparison(min_result, outcome),
                  vs_optimized |-> SavingsComparison(opt_result, outcome)] >>,
          consolidation_message |-> <<>>]
    ELSE [consolidation_option |-> <<>>, consolidation_savings |-> <<>>,
          consolidation_message |-> <<"No eligible consolidation offers available">>]

\* the DebtAnalysisResult analyze_customer_debt returns
DebtAnalysisResult(customer_id, latest_score, min_result, opt_result, consolidation_offers, outcome) ==
    LET fields == ConsolidationFields(consolidation_offers, min_result, opt_result, outcome)
    IN [op |-> "analyze_customer_debt", customer_id |-> customer_id, status |-> "ok",
        consolidation_offers |-> consolidation_offers,
        current_credit_score |-> latest_score,
        minimum_payment_strategy |-> min_result,
        optimized_payment_strategy |-> opt_result,
        savings_vs_minimum |-> SavingsComparison(min_result, opt_result),
        consolidation_option |-> fields.consolidation_option,
        consolidation_savings |-> fields.consolidation_savings,
        consolidation_message |-> fields.consolidation_message]

\* analyze_customer_debt left by an exception, after simulators_run nested
\* simulator calls were started
AnalysisRaised(customer_id, error, simulators_run) ==
    [op |-> "analyze_customer_debt", customer_id |-> customer_id, status |-> error,
     simulators_run |-> simulators_run]

\* the score check, then self.simulate_minimum_payments(customer_id)
CallAnalyzeCustomerDebt(customer_id) ==
    /\ pc = "idle"
    /\ UNCHANGED <<threads, http>>
    /\ LET customer_data == GetCustomerData(db, customer_id)
       IN IF NoScoreHistory(customer_data)
          THEN \* raise ValueError("No credit score data found ...")
               /\ ret' = AnalysisRaised(customer_id, "ValueError", 0)
               /\ pc' = "returned"
               /\ UNCHANGED <<call, analysis, loans_df, cards_df, months, total_interest>>
          ELSE IF customer_data.credit_score_history = <<>>
          THEN \* .iloc[-1] of an empty frame
               /\ ret' = AnalysisRaised(customer_id, "IndexError", 0)
               /\ pc' = "returned"
               /\ UNCHANGED <<call, analysis, loans_df, cards_df, months, total_interest>>
          ELSE /\ analysis' = [stage |-> "min", customer_id |-> customer_id,
                               latest_score |-> LatestScore(customer_data)]
               /\ loans_df' = customer_data.loans
               /\ cards_df' = customer_data.cards
               /\ call' = [op |-> "simulate_minimum_payments", customer_id |-> customer_id]
               /\ total_interest' = 0
               /\ months' = 0
               /\ pc' = "min_loop"
               /\ ret' = NoReturn
    /\ elig' = NoElig
    /\ prev' = NoResult
    /\ UNCHANGED <<db, budget>>

\* min_result is bound; self.simulate_optimized_payments(customer_id), with
\* cure_dpd_first at its default
AnalyzeAfterMinimum ==
    /\ pc = "min_loop"
    /\ UNCHANGED <<threads, http>>
    /\ ~LoopContinues(loans_df, cards_df, months)
    /\ analysis.stage = "min"
    /\ LET customer_data == GetCustomerData(db, analysis.customer_id)
       IN IF customer_data.customer_cashflow = <<>>
          THEN \* the ValueError of simulate_optimized_payments passes through
               /\ ret' = AnalysisRaised(analysis.customer_id, "ValueError", 1)
               /\ pc' = "returned"
               /\ call' = NoCall
               /\ analysis' = NoAnalysis
               /\ UNCHANGED <<loans_df, cards_df, months, total_interest, budget>>
          ELSE /\ analysis' = [stage |-> "opt", customer_id |-> analysis.customer_id,
                               latest_score |-> analysis.latest_score,
                               min_result |-> PaymentSimulationResult(months, total_interest)]
               /\ budget' = Budget(customer_data.customer_cashflow[1])
               /\ loans_df' = customer_data.loans
               /\ cards_df' = customer_data.cards
               /\ total_interest' = 0
               /\ months' = 0
               /\ call' = [op |-> "simulate_optimized_payments",
                           customer_id |-> analysis.customer_id,
                           cure_dpd_first |-> TRUE]
               /\ pc' = "opt_loop"
               /\ ret' = NoReturn
    /\ UNCHANGED <<db, prev, elig>>

\* opt_result is bound and the result is built; consolidation_offers is read
\* here for the first time: without offers the result is returned, with
\* offers self.simulate_consolidation(customer_id, offers, latest_score) runs
AnalyzeAfterOptimized ==
    /\ pc = "opt_loop"
    /\ UNCHANGED <<threads, http>>
    /\ ~LoopContinues(loans_df, cards_df, months)
    /\ analysis.stage = "opt"
    /\ \E consolidation_offers \in OfferArgs :
         LET opt_result == PaymentSimulationResult(months, total_interest)
             customer_data == GetCustomerData(db, analysis.customer_id)
         IN IF ~Truthy(consolidation_offers)
            THEN /\ ret' = DebtAnalysisResult(analysis.customer_id, analysis.latest_score,
                                              analysis.min_result, opt_result,
                                              consolidation_offers, NotCalled)
                 /\ pc' = "returned"
                 /\ call' = NoCall
                 /\ analysis' = NoAnalysis
                 /\ UNCHANGED <<budget, elig>>
            ELSE IF customer_data.customer_cashflow = <<>>
            THEN /\ ret' = AnalysisRaised(analysis.customer_id, "ValueError", 2)
                 /\ pc' = "returned"
                 /\ call' = NoCall
                 /\ analysis' = NoAnalysis
                 /\ UNCHANGED <<budget, elig>>
            ELSE /\ analysis' = [stage |-> "cons", customer_id |-> analysis.customer_id,
                                 latest_score |-> analysis.latest_score,
                                 min_result |-> analysis.min_result,
                                 opt_result |-> opt_result,
                                 consolidation_offers |-> consolidation_offers]
                 /\ budget' = Budget(customer_data.customer_cashflow[1])
                 /\ \E ai_manager \in AiManagers :
                       call' = [op |-> "simulate_consolidation",
                                customer_id |-> analysis.customer_id,
                                offers |-> consolidation_offers.list,
                                credit_score |-> analysis.latest_score,
                                ai_manager |-> ai_manager]
                 /\ elig' = [NoElig EXCEPT !.idx = 1]
                 /\ pc' = "elig_loop"
                 /\ ret' = NoReturn
    /\ UNCHANGED <<db, loans_df, cards_df, months, total_interest, prev>>

\* simulate_consolidation has returned to analyze_customer_debt
AnalyzeAfterConsolidation ==
    /\ pc = "elig_loop"
    /\ UNCHANGED <<threads, http>>
    /\ call.op = "simulate_consolidation"
    /\ elig.idx > Len(call.offers)
    /\ analysis.stage = "cons"
    /\ LET outcome == ConsolidationOutcome(call.customer_id,
                                           GetCustomerData(db, call.customer_id),
                                           SortByRate(elig.eligible), budget)
       IN ret' = IF outcome.status \in {"ok", "None"}
                 THEN DebtAnalysisResult(analysis.customer_id, analysis.latest_score,
                                         analysis.min_result, analysis.opt_result,
                                         analysis.consolidation_offers, outcome)
                 ELSE AnalysisRaised(analysis.customer_id, outcome.status, 3)
    /\ pc' = "returned"
    /\ call' = NoCall
    /\ analysis' = NoAnalysis
    /\ UNCHANGED <<db, loans_df, cards_df, months, total_interest, budget, elig, prev>>

\* the caller (an endpoint) takes what the call
\* handed back; the working copy and the locals of the call are dropped
CallerTakesResult ==
    /\ pc = "returned"
    /\ UNCHANGED threads
    /\ http' = NoResponse
    /\ pc' = "idle"
    /\ ret' = NoReturn
    /\ elig' = NoElig
    /\ loans_df' = <<>>
    /\ cards_df' = <<>>
    /\ months' = 0
    /\ total_interest' = 0
    /\ budget' = 0
    /\ prev' = IF ret.op \in {"simulate_minimum_payments", "simulate_optimized_payments"}
                  /\ ret.status = "ok"
               THEN ret ELSE prev
    /\ UNCHANGED <<db, call, analysis>>

Init ==
    /\ db \in Tables
    /\ pc = "idle"
    /\ call = NoCall
    /\ loans_df = <<>>
    /\ cards_df = <<>>
    /\ months = 0
    /\ total_interest = 0
    /\ budget = 0
    /\ ret = NoReturn
    /\ prev = NoResult
    /\ analysis = NoAnalysis
    /\ elig = NoElig
    /\ threads = NoThreads
    /\ http = NoResponse

Next ==
    \/ \E customer_id \in Customers : CallSimulateMinimumPayments(customer_id)
    \/ MinMonth
    \/ MinReturn
    \/ \E customer_id \in Customers, cure_dpd_first \in BOOLEAN :
          CallSimulateOptimizedPayments(customer_id, cure_dpd_first)
    \/ OptMonth
    \/ OptReturn
    \/ \E customer_id \in Customers, offers \in OfferLists(MaxOffers),
          credit_score \in CreditScores :
          CallGetEligibleOffers(customer_id, offers, credit_score)
    \/ EligEvaluateOffer
    \/ EligReturn
    \/ \E customer_id \in Customers, offers \in OfferLists(MaxOffers),
          credit_score \in CreditScores :
          CallSimulateConsolidation(customer_id, offers, credit_score)
    \/ ConsAfterEligibleOffers
    \/ \E customer_id \in Customers : CallAnalyzeCustomerDebt(customer_id)
    \/ AnalyzeAfterMinimum
    \/ AnalyzeAfterOptimized
    \/ AnalyzeAfterConsolidation
    \/ CallerTakesResult

Spec == Init /\ [][Next]_vars

(***************************************************************************)
(* simulate_minimum_payments on a customer whose only debt is one loan at  *)
(* 0% annual rate                                                          *)
(***************************************************************************)
ZeroRatePrincipals == {100000, 1200000}
ZeroRateTerms == {1, 2, 12, MaxMonths - 1, MaxMonths, MaxMonths + 1, MaxMonths + 200}

ZeroRateTables ==
    { Store(<< <<Loan(p, 0, n, 0, "personal")>>, <<>> >>, cf, ScoreRows) :
        p \in ZeroRatePrincipals, n \in ZeroRateTerms,
        cf \in { <<>>, << Cashflow(350000, 100, 180000) >> } }

InitZeroRate ==
    /\ db \in ZeroRateTables
    /\ pc = "idle"
    /\ call = NoCall
    /\ loans_df = <<>>
    /\ cards_df = <<>>
    /\ months = 0
    /\ total_interest = 0
    /\ budget = 0
    /\ ret = NoReturn
    /\ prev = NoResult
    /\ analysis = NoAnalysis
    /\ elig = NoElig
    /\ threads = NoThreads
    /\ http = NoResponse

NextZeroRate ==
    \/ CallSimulateMinimumPayments("CU-001")
    \/ MinMonth
    \/ MinReturn
    \/ CallerTakesResult

SpecZeroRate == InitZeroRate /\ [][NextZeroRate]_vars

(***************************************************************************)
(* The simulators on a customer whose debts are cards                      *)
(***************************************************************************)
\* 1000.00 at 45% with a minimum of 1%; 5.00 at 45% with 4%; 2.50 at 35% with
\* 100%; 0.50 at 45% with 4%
FloorCards ==
    << Card(100000, 450, 10, 0),
       Card(500, 450, 40, 5),
       Card(250, 350, 1000, 0),
       Card(50, 450, 40, 0) >>

CardFloorTables ==
    { Store(<< <<>>, cs >>, cf, ScoreRows) :
        cs \in SubSeqs(FloorCards, MaxCards + 1) \ { <<>> },
        cf \in { << Cashflow(30000, 0, 28000) >>, << Cashflow(100000, 500, 40000) >> } }

InitCardFloor ==
    /\ db \in CardFloorTables
    /\ pc = "idle"
    /\ call = NoCall
    /\ loans_df = <<>>
    /\ cards_df = <<>>
    /\ months = 0
    /\ total_interest = 0
    /\ budget = 0
    /\ ret = NoReturn
    /\ prev = NoResult
    /\ analysis = NoAnalysis
    /\ elig = NoElig
    /\ threads = NoThreads
    /\ http = NoResponse

NextCardFloor ==
    \/ CallSimulateMinimumPayments("CU-001")
    \/ MinMonth
    \/ MinReturn
    \/ \E cure_dpd_first \in BOOLEAN : CallSimulateOptimizedPayments("CU-001", cure_dpd_first)
    \/ OptMonth
    \/ OptReturn
    \/ CallerTakesResult

SpecCardFloor == InitCardFloor /\ [][NextCardFloor]_vars

(***************************************************************************)
(* simulate_optimized_payments on customers whose instruments differ in    *)
(* delinquency and tie or differ in rate                                   *)
(***************************************************************************)
PriorityLoans ==
    << Loan(50000, 350, 3, 15, "micro"),
       Loan(40000, 350, 2, 0, "personal"),
       Loan(30000, 400, 3, 0, "personal") >>

PriorityCards ==
    << Card(500, 450, 40, 5),
       Card(800, 450, 40, 0),
       Card(600, 300, 40, 10),
       Card(700, 350, 40, 0) >>

PriorityTables ==
    { Store(<<ls, cs>>, cf, ScoreRows) :
        ls \in SubSeqs(PriorityLoans, MaxLoans),
        cs \in SubSeqs(PriorityCards, MaxCards + 1),
        cf \in { << Cashflow(350000, 100, 180000) >>, << Cashflow(100000, 50, 50000) >> } }

InitPriority ==
    /\ db \in PriorityTables
    /\ pc = "idle"
    /\ call = NoCall
    /\ loans_df = <<>>
    /\ cards_df = <<>>
    /\ months = 0
    /\ total_interest = 0
    /\ budget = 0
    /\ ret = NoReturn
    /\ prev = NoResult
    /\ analysis = NoAnalysis
    /\ elig = NoElig
    /\ threads = NoThreads
    /\ http = NoResponse

NextPriority ==
    \/ \E cure_dpd_first \in BOOLEAN : CallSimulateOptimizedPayments("CU-001", cure_dpd_first)
    \/ OptMonth
    \/ OptReturn
    \/ CallerTakesResult

SpecPriority == InitPriority /\ [][NextPriority]_vars

(***************************************************************************)
(* Simulations side by side: one AnalysisService and one MockDatabase      *)
(* called from worker threads; every call has its own locals (loans_df,    *)
(* cards_df, months, total_interest, monthly_budget) and reads self.db     *)
(***************************************************************************)
ConcurrentCustomers == {"CU-001", "CU-002"}

\* a row of the pools as a row of another customer
OwnedBy(row, customer_id) == [row EXCEPT !.customer_id = customer_id]

\* snapshots with rows of two customers, every debt paid off within a year
ConcurrentTables ==
    { [loans |-> l1 \o <<OwnedBy(LoanPool[4], "CU-002")>>,
       cards |-> c1 \o <<OwnedBy(CardPool[1], "CU-002")>>,
       customer_cashflow |-> <<Cashflow(30000, 0, 28000)>> \o cf2,
       credit_score_history |-> ScoreRows] :
        l1 \in SubSeqs(<<LoanPool[3], LoanPool[4]>>, MaxLoans) \ { <<>> },
        c1 \in SubSeqs(CardPool, MaxCards),
        cf2 \in { <<>>, <<OwnedBy(Cashflow(100000, 500, 20000), "CU-002")>> } }

\* the variables of the call of the sequential caller
callVars == <<pc, call, loans_df, cards_df, months, total_interest, budget, ret,
              prev, analysis, elig, http>>

\* one pass of the loop of simulate_minimum_payments over the frames
MinimumPass(loans, cards) ==
    [loans |-> [i \in 1 .. Len(loans) |-> MinLoanStep(loans[i])],
     cards |-> [i \in 1 .. Len(cards) |-> MinCardStep(cards[i])]]

\* one pass of the loop of simulate_optimized_payments over the frames
OptimizedPass(loans, cards, monthly_budget, cure_dpd_first) ==
    LET extra == Extra(monthly_budget, MinimumsTotal(loans, cards))
        loans_min == [i \in 1 .. Len(loans) |-> OptLoanStep(loans[i])]
        cards_min == [i \in 1 .. Len(cards) |-> OptCardStep(cards[i])]
        priority_debt == IF extra > Eps
                         THEN GetPriorityDebt(loans_min, cards_min, cure_dpd_first)
                         ELSE NoDebt
    IN [loans |-> ApplyExtraLoans(loans_min, priority_debt, extra),
        cards |-> ApplyExtraCards(cards_min, priority_debt, extra)]

\* the pass of the loop the thread is in
Pass(th, loans, cards) ==
    IF th.op = "simulate_minimum_payments"
    THEN MinimumPass(loans, cards)
    ELSE OptimizedPass(loans, cards, th.budget, th.cure_dpd_first)

\* the threads inside a month loop
Running(t) == threads[t].pc = "running"

\* frames kept per customer and handed to every call for that customer: a
\* thread works on the frames of the call for its customer that is furthest
WorkingCopy_Shared(t) ==
    LET same == { u \in Threads :
                    Running(u) /\ threads[u].customer_id = threads[t].customer_id }
        u == CHOOSE v \in same : \A w \in same : threads[v].months >= threads[w].months
    IN [loans |-> threads[u].loans_df, cards |-> threads[u].cards_df]

\* the frames a thread's loop reads and writes: the copies its call made
WorkingCopy(t) ==
    [loans |-> threads[t].loans_df, cards |-> threads[t].cards_df]

\* a call of a simulator enters on thread t
ThreadCall(t, op, customer_id, cure_dpd_first) ==
    /\ threads[t].pc = "ready"
    /\ LET customer_data == GetCustomerData(db, customer_id)
           needs_cashflow == op = "simulate_optimized_payments"
       IN threads' = [threads EXCEPT ![t] =
            IF needs_cashflow /\ customer_data.customer_cashflow = <<>>
            THEN [pc |-> "done", op |-> op, customer_id |-> customer_id,
                  cure_dpd_first |-> cure_dpd_first, status |-> "ValueError",
                  interleaved |-> FALSE]
            ELSE [pc |-> "running", op |-> op, customer_id |-> customer_id,
                  cure_dpd_first |-> cure_dpd_first,
                  budget |-> IF needs_cashflow
                             THEN Budget(customer_data.customer_cashflow[1]) ELSE 0,
                  loans_df |-> customer_data.loans, cards_df |-> customer_data.cards,
                  months |-> 0, total_interest |-> 0, interleaved |-> FALSE]]
    /\ UNCHANGED db
    /\ UNCHANGED callVars

\* thread t runs one pass of its month loop
ThreadMonth(t) ==
    /\ Running(t)
    /\ LET th == threads[t]
           df == WorkingCopy(t)
           after == Pass(th, df.loans, df.cards)
       IN /\ LoopContinues(df.loans, df.cards, th.months)
          /\ threads' = [threads EXCEPT ![t] =
                [th EXCEPT !.months = th.months + 1,
                           !.total_interest = th.total_interest + LoanInterest(df.loans)
                                              + CardInterest(df.cards),
                           !.loans_df = after.loans,
                           !.cards_df = after.cards,
                           !.interleaved = th.interleaved
                               \/ \E u \in Threads \ {t} :
                                     Running(u) /\ threads[u].months >= 1]]
          /\ db' = [db EXCEPT !.loans = CanonicalLoans(db, th.customer_id, after.loans),
                              !.cards = CanonicalCards(db, th.customer_id, after.cards)]
    /\ UNCHANGED callVars

\* the loop of thread t ends and the call returns its result
ThreadReturn(t) ==
    /\ Running(t)
    /\ LET th == threads[t]
           df == WorkingCopy(t)
       IN /\ ~LoopContinues(df.loans, df.cards, th.months)
          /\ threads' = [threads EXCEPT ![t] =
                [pc |-> "done", op |-> th.op, customer_id |-> th.customer_id,
                 cure_dpd_first |-> th.cure_dpd_first, status |-> "ok",
                 months |-> th.months, total_interest |-> th.total_interest,
                 interleaved |-> th.interleaved]]
    /\ UNCHANGED db
    /\ UNCHANGED callVars

\* the result of thread t is taken and the thread is free again
ThreadJoin(t) ==
    /\ threads[t].pc = "done"
    /\ threads' = [threads EXCEPT ![t] = IdleThread]
    /\ UNCHANGED db
    /\ UNCHANGED callVars

InitConcurrent ==
    /\ db \in ConcurrentTables
    /\ pc = "idle"
    /\ call = NoCall
    /\ loans_df = <<>>
    /\ cards_df = <<>>
    /\ months = 0
    /\ total_interest = 0
    /\ budget = 0
    /\ ret = NoReturn
    /\ prev = NoResult
    /\ analysis = NoAnalysis
    /\ elig = NoElig
    /\ threads = NoThreads
    /\ http = NoResponse

NextConcurrent ==
    \/ \E t \in Threads, customer_id \in ConcurrentCustomers :
          ThreadCall(t, "simulate_minimum_payments", customer_id, FALSE)
    \/ \E t \in Threads, customer_id \in ConcurrentCustomers, cure_dpd_first \in BOOLEAN :
          ThreadCall(t, "simulate_optimized_payments", customer_id, cure_dpd_first)
    \/ \E t \in Threads : ThreadMonth(t)
    \/ \E t \in Threads : ThreadReturn(t)
    \/ \E t \in Threads : ThreadJoin(t)

SpecConcurrent == InitConcurrent /\ [][NextConcurrent]_vars


(***************************************************************************)
(* Properties                                                              *)
(***************************************************************************)
SimulatorOps ==
    {"simulate_minimum_payments", "simulate_optimized_payments", "simulate_consolidation"}

\* a simulator handed back a result object
ReturnedResult == pc = "returned" /\ ret.op \in SimulatorOps /\ ret.status = "ok"

ResultMonths(r) == IF r.op = "simulate_consolidation" THEN r.outcome.months ELSE r.months

\* the stages of analyze_customer_debt, in the order it passes through them
StageRank(stage) ==
    CASE stage = "min" -> 1 [] stage = "opt" -> 2 [] stage = "cons" -> 3 [] OTHER -> 4

\* analyze_customer_debt moves from one nested call to the next
AnalysisAdvances ==
    analysis.stage # "none" /\ StageRank(analysis'.stage) > StageRank(analysis.stage)

\* a step taken inside a month loop returns, counts one more month, or hands
\* the finished simulation to analyze_customer_debt
SimulatorLoopAdvances ==
    pc \in {"min_loop", "opt_loop"}
        => (pc' = "returned" \/ (pc' = pc /\ months' = months + 1) \/ AnalysisAdvances)

\* a step taken inside the offer loop returns or moves to the next offer
OfferLoopAdvances ==
    pc = "elig_loop"
        => (pc' = "returned"
            \/ (pc' = pc /\ elig.idx <= Len(call.offers) /\ elig'.idx = elig.idx + 1))

\* C1: each simulator terminates and returns months <= 1000 for every
\* snapshot of non-negative values, also when the balances never reach zero:
\* the month counter never passes 1000, a returned result carries months
\* <= 1000, and every step of a loop either returns or advances the loop's
\* counter by one.
C1_TerminatesWithinMaxMonths ==
    /\ [](months <= MaxMonths)
    /\ [](ReturnedResult => ResultMonths(ret) <= MaxMonths)
    /\ [][SimulatorLoopAdvances]_vars
    /\ [][OfferLoopAdvances]_vars

\* a simulation stopped by the cap with a debt still open
C1_Witness ==
    /\ ReturnedResult
    /\ ret.op \in {"simulate_minimum_payments", "simulate_optimized_payments"}
    /\ ret.months = MaxMonths
    /\ ~Done(loans_df, cards_df)

\* C2: in every state of a month-stepping loop every loan principal and
\* every card balance of the working copy is >= 0.
C2_BalancesNonNegative ==
    /\ \A i \in 1 .. Len(loans_df) : loans_df[i].principal >= 0
    /\ \A i \in 1 .. Len(cards_df) : cards_df[i].balance >= 0

\* a month in which a payment larger than the debt met the clamp: a card
\* was paid off by a minimum payment above its payoff amount while the loop
\* goes on for another instrument
C2_Witness ==
    /\ pc \in {"min_loop", "opt_loop"}
    /\ months > 0
    /\ \E i \in 1 .. Len(cards_df) :
         /\ cards_df[i].balance = 0
         /\ db.cards[i].balance > 0
    /\ ~Done(loans_df, cards_df)

\* the sum of the minimum payments of the customer's instruments as stored
InitialMinimums(customer_id) ==
    LET customer_data == GetCustomerData(db, customer_id)
    IN MinimumsTotal(customer_data.loans, customer_data.cards)

StoredBudget(customer_id) ==
    Budget(GetCustomerData(db, customer_id).customer_cashflow[1])

\* the avalanche simulator returned, and the simulator call before it was the
\* minimum simulator for the same customer
BothStrategiesKnown ==
    /\ pc = "returned"
    /\ ret.op = "simulate_optimized_payments"
    /\ ret.status = "ok"
    /\ prev.op = "simulate_minimum_payments"
    /\ prev.customer_id = ret.customer_id

\* C3: for the same loans and cards, when the budget is at least the sum of
\* all minimum payments, the avalanche result has total_interest <= and
\* months <= the minimum-payment result, for either value of cure_dpd_first.
C3_AvalancheDominates ==
    (BothStrategiesKnown /\ StoredBudget(ret.customer_id) >= InitialMinimums(ret.customer_id))
        => /\ ret.total_interest <= prev.total_interest
           /\ ret.months <= prev.months

\* a budget above the minimums, and an avalanche result strictly better in
\* interest and in months
C3_Witness ==
    /\ BothStrategiesKnown
    /\ StoredBudget(ret.customer_id) >= InitialMinimums(ret.customer_id)
    /\ InitialMinimums(ret.customer_id) > 0
    /\ ~ret.cure_dpd_first
    /\ ret.total_interest < prev.total_interest
    /\ ret.months < prev.months

\* the call whose offers the offer loop is evaluating or has evaluated
EvaluatedCall ==
    IF pc = "elig_loop"
    THEN [customer_id |-> call.customer_id, offers |-> call.offers]
    ELSE IF pc = "returned" /\ elig.idx > 0
            /\ ret.op \in {"get_eligible_offers", "simulate_consolidation"}
    THEN [customer_id |-> ret.customer_id, offers |-> ret.offers]
    ELSE IF pc = "returned" /\ elig.idx > 0 /\ ret.status = "ok"
    THEN [customer_id |-> ret.customer_id, offers |-> ret.consolidation_offers.list]
    ELSE [customer_id |-> "", offers |-> <<>>]

EvaluatedCustomerData == GetCustomerData(db, EvaluatedCall.customer_id)

InList(offer, offers) == \E j \in 1 .. Len(offers) : offers[j] = offer

\* get_eligible_offers handed back its response
EligibleOffersReturned ==
    pc = "returned" /\ ret.op = "get_eligible_offers" /\ ret.status = "ok"

\* C4: get_eligible_offers returns an offer in eligible_offers whenever the
\* customer's debts pass the three deterministic checks and the offer's
\* conditions text is empty or a 'none' sentinel; an offer failing any of the
\* three checks is never returned.
C4_DeterministicChecksDecide ==
    EligibleOffersReturned =>
        \A i \in 1 .. Len(ret.offers) :
            LET offer == ret.offers[i]
                passes == CheckBasicEligibility(GetCustomerData(db, ret.customer_id), offer)
            IN /\ (passes /\ ~HasConditions(offer)) => InList(offer, ret.eligible_offers)
               /\ ~passes => ~InList(offer, ret.eligible_offers)

\* an offer without conditions that passes the three checks was evaluated
C4_Witness ==
    /\ EligibleOffersReturned
    /\ \E i \in 1 .. Len(ret.offers) :
         /\ CheckBasicEligibility(GetCustomerData(db, ret.customer_id), ret.offers[i])
         /\ ~HasConditions(ret.offers[i])

\* C5: evaluate_consolidation_conditions is called for an offer only after
\* the three deterministic checks have passed for it: an offer that fails one
\* of them is not eligible and no call to the AI service was made for it.
C5_AiOnlyAfterChecks ==
    \A i \in 1 .. Len(elig.ai_calls) :
        LET offer == EvaluatedCall.offers[i]
        IN ~CheckBasicEligibility(EvaluatedCustomerData, offer)
              => /\ elig.ai_calls[i] = 0
                 /\ ~InList(offer, elig.eligible)

\* an offer with conditions whose eligible debt is above its cap was
\* evaluated, is not in the response, and the AI service was not called
C5_Witness ==
    /\ EligibleOffersReturned
    /\ \E i \in 1 .. Len(ret.offers) :
         /\ HasConditions(ret.offers[i])
         /\ EligibleDebt(EvaluatedCustomerData, ret.offers[i])
                > ret.offers[i].max_consolidated_balance
         /\ elig.ai_calls[i] = 0
         /\ ~InList(ret.offers[i], ret.eligible_offers)

\* C7: during one get_eligible_offers call the AI service is called at most
\* once per offer, and never for an offer whose conditions text is empty,
\* whitespace-only, 'none' or 'none specified'.
C7_AiAtMostOncePerOffer ==
    /\ Len(elig.ai_calls) <= Len(EvaluatedCall.offers)
    /\ \A i \in 1 .. Len(elig.ai_calls) :
         /\ elig.ai_calls[i] <= 1
         /\ ~HasConditions(EvaluatedCall.offers[i]) => elig.ai_calls[i] = 0

\* a call evaluated an offer with a blank or 'none' conditions text and an
\* offer with conditions
C7_Witness ==
    /\ EligibleOffersReturned
    /\ Len(elig.ai_calls) = Len(ret.offers)
    /\ \E i, j \in 1 .. Len(ret.offers) :
         /\ ret.offers[i].conditions \in {"   ", "None"}
         /\ elig.ai_calls[i] = 0
         /\ HasConditions(ret.offers[j])

\* simulate_consolidation ended for a customer with cashflow data
ConsolidationEnded ==
    pc = "returned" /\ ret.op = "simulate_consolidation" /\ ret.status # "ValueError"

\* C9: when none of the supplied offers is eligible, simulate_consolidation
\* returns None without raising and without running a payoff loop, provided
\* the customer has cashflow data.
C9_NoneWithoutEligibleOffer ==
    (ConsolidationEnded /\ elig.eligible = <<>>)
        => /\ ret.status = "None"
           /\ ~ret.outcome.loop_entered

\* offers were supplied, each of them fails a deterministic check, and the
\* call returned None
C9_Witness ==
    /\ ConsolidationEnded
    /\ ret.offers # <<>>
    /\ \A i \in 1 .. Len(ret.offers) :
         ~CheckBasicEligibility(EvaluatedCustomerData, ret.offers[i])
    /\ elig.eligible = <<>>
    /\ ret.status = "None"

\* analyze_customer_debt handed back its DebtAnalysisResult
AnalysisReturned ==
    pc = "returned" /\ ret.op = "analyze_customer_debt" /\ ret.status = "ok"

\* C13: in the DebtAnalysisResult, savings_vs_minimum is minimum minus
\* optimized for interest and months; without offers (None or an empty list)
\* consolidation_option, consolidation_savings and consolidation_message are
\* all absent; with offers either option and savings are both present and the
\* message absent, or both are absent and the message is present.
C13_AnalysisResultShape ==
    AnalysisReturned =>
        /\ ret.savings_vs_minimum.interest_saved
              = ret.minimum_payment_strategy.total_interest
                - ret.optimized_payment_strategy.total_interest
        /\ ret.savings_vs_minimum.months_saved
              = ret.minimum_payment_strategy.months - ret.optimized_payment_strategy.months
        /\ ~Truthy(ret.consolidation_offers)
              => /\ ret.consolidation_option = <<>>
                 /\ ret.consolidation_savings = <<>>
                 /\ ret.consolidation_message = <<>>
        /\ Truthy(ret.consolidation_offers)
              => \/ /\ ret.consolidation_option # <<>>
                    /\ ret.consolidation_savings # <<>>
                    /\ ret.consolidation_message = <<>>
                 \/ /\ ret.consolidation_option = <<>>
                    /\ ret.consolidation_savings = <<>>
                    /\ ret.consolidation_message # <<>>

\* an analysis with offers supplied that saved interest against the minimum
\* strategy and carries the message instead of a consolidation option
C13_Witness ==
    /\ AnalysisReturned
    /\ Truthy(ret.consolidation_offers)
    /\ ret.savings_vs_minimum.interest_saved > 0
    /\ ret.savings_vs_minimum.months_saved > 0
    /\ ret.consolidation_message # <<>>

\* the customer has no row in the cashflow table / in the score history
NoCashflow(customer_id) == GetCustomerData(db, customer_id).customer_cashflow = <<>>
NoScores(customer_id) == GetCustomerData(db, customer_id).credit_score_history = <<>>

\* C14: simulate_optimized_payments and simulate_consolidation raise the
\* not-found error (ValueError) and return no result when the customer has no
\* cashflow record; analyze_customer_debt raises it when the customer has no
\* credit-score history, before any simulator has run; what the caller gets
\* carries no result field.
C14_MissingDataRaises ==
    pc = "returned" =>
        /\ (ret.op \in {"simulate_optimized_payments", "simulate_consolidation"}
              /\ NoCashflow(ret.customer_id))
              => /\ ret.status = "ValueError"
                 /\ DOMAIN ret = {"op", "customer_id", "status"}
        /\ (ret.op = "analyze_customer_debt" /\ NoScores(ret.customer_id))
              => /\ ret.status = "ValueError"
                 /\ ret.simulators_run = 0
                 /\ DOMAIN ret = {"op", "customer_id", "status", "simulators_run"}
                 /\ months = 0 /\ loans_df = <<>> /\ cards_df = <<>>

\* analyze_customer_debt was called for a customer with a loan and a card
\* but no credit-score history, and raised
C14_Witness ==
    /\ pc = "returned"
    /\ ret.op = "analyze_customer_debt"
    /\ NoScores(ret.customer_id)
    /\ GetCustomerData(db, ret.customer_id).loans # <<>>
    /\ GetCustomerData(db, ret.customer_id).cards # <<>>
    /\ ret.status = "ValueError"

\* the customer id has no row in any table of the store
UnknownCustomer(customer_id) ==
    LET customer_data == GetCustomerData(db, customer_id)
    IN /\ customer_data.loans = <<>>
       /\ customer_data.cards = <<>>
       /\ customer_data.customer_cashflow = <<>>
       /\ customer_data.credit_score_history = <<>>

\* C15: for a customer id with no record at all in the data store, every
\* requested operation fails with a lookup failure (ValueError, a 404 at the
\* endpoint) instead of returning a result object.
C15_UnknownCustomerFails ==
    (pc = "returned" /\ UnknownCustomer(ret.customer_id)) => ret.status = "ValueError"

\* an operation was called for a customer id that has no record, while the
\* store holds the rows of another customer
C15_Witness ==
    /\ pc = "returned"
    /\ UnknownCustomer(ret.customer_id)
    /\ db.loans # <<>>
    /\ ret.op \in {"simulate_minimum_payments", "get_eligible_offers"}

\* C16: whatever calls are made, the loan and card records held by the data
\* store (and its other tables) never change: every step leaves the store as
\* it was, all writes go to the working copies of the call.
C16_StoreUnchanged == [][db' = db]_vars

\* a simulation has written to its working copy of the loans, which now
\* differs from the customer's rows in the store
C16_Witness ==
    /\ pc \in {"min_loop", "opt_loop"}
    /\ months > 0
    /\ loans_df # <<>>
    /\ loans_df # GetCustomerData(db, call.customer_id).loans

\* the simulator that just returned is the one whose result the caller took
\* last, called with the same arguments
SameSimulatorCalledAgain ==
    /\ pc = "returned"
    /\ ret.op \in {"simulate_minimum_payments", "simulate_optimized_payments"}
    /\ ret.status = "ok"
    /\ prev.op = ret.op
    /\ prev.customer_id = ret.customer_id
    /\ ret.op = "simulate_optimized_payments" => prev.cure_dpd_first = ret.cure_dpd_first

RECURSIVE RunToEnd(_, _, _, _, _)
RunToEnd(th, loans, cards, m, interest) ==
    IF ~LoopContinues(loans, cards, m)
    THEN [months |-> m, total_interest |-> interest]
    ELSE LET after == Pass(th, loans, cards)
         IN RunToEnd(th, after.loans, after.cards, m + 1,
                     interest + LoanInterest(loans) + CardInterest(cards))

RunAlone(op, customer_id, cure_dpd_first) ==
    LET customer_data == GetCustomerData(db, customer_id)
        alone == [op |-> op, cure_dpd_first |-> cure_dpd_first,
                  budget |-> IF op = "simulate_optimized_payments"
                             THEN Budget(customer_data.customer_cashflow[1]) ELSE 0]
    IN RunToEnd(alone, customer_data.loans, customer_data.cards, 0, 0)

ThreadResult(t) ==
    [months |-> threads[t].months, total_interest |-> threads[t].total_interest]

\* C18: the result a thread returns is the result of its call run alone
C18_ConcurrentEqualsAlone ==
    \A t \in Threads :
        threads[t].pc = "done" /\ threads[t].status = "ok"
            => ThreadResult(t) = RunAlone(threads[t].op, threads[t].customer_id,
                                          threads[t].cure_dpd_first)

\* two simulations of the same customer, the month steps of one taken while
\* the other was between two of its own, one of them returned after two
\* months or more
C18_Witness ==
    \E t, u \in Threads :
        /\ t # u
        /\ threads[t].pc = "done" /\ threads[t].status = "ok"
        /\ threads[t].interleaved
        /\ threads[t].months >= 2
        /\ threads[u].pc \in {"running", "done"}
        /\ threads[u].customer_id = threads[t].customer_id
        /\ threads[u].interleaved

(***************************************************************************)
(* C19: for a customer whose only debt is one loan at 0% with principal    *)
(* P > 0 and remaining term n >= 1, simulate_minimum_payments pays         *)
(* principal / remaining term each month and returns months == n and       *)
(* total_interest == 0.                                                    *)
(***************************************************************************)
\* the stored debts of the customer are one loan at 0% with P > 0, n >= 1
OnlyZeroRateLoan(customer_id) ==
    LET customer_data == GetCustomerData(db, customer_id)
    IN /\ Len(customer_data.loans) = 1
       /\ customer_data.cards = <<>>
       /\ customer_data.loans[1].annual_rate_pct = 0
       /\ customer_data.loans[1].principal > 0
       /\ customer_data.loans[1].remaining_term_months >= 1

StoredTerm(customer_id) ==
    GetCustomerData(db, customer_id).loans[1].remaining_term_months

MinimumReturnedFor(customer_id) ==
    /\ pc = "returned"
    /\ ret.op = "simulate_minimum_payments"
    /\ ret.customer_id = customer_id

\* the statement as the specification gives it, for every n >= 1
C19_ZeroRateAnyTerm ==
    \A customer_id \in Customers :
        MinimumReturnedFor(customer_id) /\ OnlyZeroRateLoan(customer_id)
            => ret.months = StoredTerm(customer_id) /\ ret.total_interest = 0

\* the result, the month cap taken into account
ZeroRateResult ==
    \A customer_id \in Customers :
        MinimumReturnedFor(customer_id) /\ OnlyZeroRateLoan(customer_id)
            => /\ ret.months = Min(StoredTerm(customer_id), MaxMonths)
               /\ ret.total_interest = 0

\* a pass of the loop takes principal / remaining term off the principal
ZeroRatePayment ==
    pc = "min_loop" /\ months' = months + 1 /\ OnlyZeroRateLoan(call.customer_id)
        => /\ loans_df[1].remaining_term_months >= 1
           /\ loans_df'[1].principal = loans_df[1].principal
                  - RoundDiv(loans_df[1].principal, loans_df[1].remaining_term_months)
           /\ total_interest' = 0

\* C19 (amended): with 1 <= n <= 1000 the result is months == n and
\* total_interest == 0; with n > 1000 it is months == 1000; every month pays
\* principal / remaining term
C19_ZeroRateLoan == []ZeroRateResult /\ [][ZeroRatePayment]_vars

\* the example of the specification: 12000 at 0% over 12 months
C19_Witness ==
    /\ MinimumReturnedFor("CU-001")
    /\ OnlyZeroRateLoan("CU-001")
    /\ GetCustomerData(db, "CU-001").loans[1].principal = 12000 * Cent
    /\ StoredTerm("CU-001") = 12
    /\ ret.months = 12
    /\ ret.total_interest = 0

(***************************************************************************)
(* C20: the minimum payment of an active card in a month is                *)
(* max(balance * min_payment_pct / 100, interest + 1.0); when the          *)
(* percentage amount is below interest + 1.0 the minimum is interest +     *)
(* 1.0, and the balance of an active card falls by at least                *)
(* min(1.0, balance) in every month in which its minimum is paid.          *)
(***************************************************************************)
InMonthLoop == pc \in {"min_loop", "opt_loop"}

\* balance * min_payment_pct / 100
PctAmount(card) == RoundDiv(card.balance * card.min_payment_pct, PctScale)

\* interest + 1.0
FloorAmount(card) == RoundDiv(card.balance * card.annual_rate_pct, RateScale) + CardFloor

FallsByFloor(before, after) ==
    after.balance <= before.balance - Min(CardFloor, before.balance)

\* the minimum of every active card of the frame is the larger of the two
\* amounts, and the minimum step of each of the three simulators takes at
\* least min(1.0, balance) off the balance
CardMinimumIsMax ==
    InMonthLoop =>
        \A i \in 1 .. Len(cards_df) :
            Active(cards_df[i].balance) =>
                LET card == cards_df[i]
                IN /\ CardMinPayment(card) >= PctAmount(card)
                   /\ CardMinPayment(card) >= FloorAmount(card)
                   /\ CardMinPayment(card) \in {PctAmount(card), FloorAmount(card)}
                   /\ PctAmount(card) < FloorAmount(card)
                          => CardMinPayment(card) = FloorAmount(card)
                   /\ FallsByFloor(card, MinCardStep(card))
                   /\ FallsByFloor(card, OptCardStep(card))
                   /\ FallsByFloor(card, ConsCardStep(card))

\* a pass of a month loop takes at least min(1.0, balance) off every active card
CardBalanceFalls ==
    InMonthLoop /\ months' = months + 1
        => \A i \in 1 .. Len(cards_df) :
               Active(cards_df[i].balance) => FallsByFloor(cards_df[i], cards_df'[i])

\* C20: the card minimum is max(percentage amount, interest + 1.0) and paying
\* it lowers an active balance by at least min(1.0, balance)
C20_CardMinimumFloor == []CardMinimumIsMax /\ [][CardBalanceFalls]_vars

\* the card of the example, 1000 at 45% with a minimum of 1%, after its first
\* month: the minimum was interest + 1.0 = 38.50, not 10.00, and the balance
\* fell by 1.00
C20_Witness ==
    /\ InMonthLoop
    /\ months = 1
    /\ Len(cards_df) >= 1
    /\ db.cards[1] = FloorCards[1]
    /\ PctAmount(db.cards[1]) = 10 * Cent
    /\ CardMinPayment(db.cards[1]) = 38 * Cent + 50
    /\ cards_df[1].balance = db.cards[1].balance - CardFloor

(***************************************************************************)
(* C21: in each month of the avalanche simulator at most one instrument    *)
(* receives a payment beyond its own minimum; the extra applied to it is   *)
(* min(extra, its balance after minimums); the unspent remainder goes to   *)
(* no other instrument and is not carried to the next month.               *)
(***************************************************************************)
\* the frames after the minimum payments of the month
LoansAfterMinimums(loans) == [i \in 1 .. Len(loans) |-> OptLoanStep(loans[i])]
CardsAfterMinimums(cards) == [i \in 1 .. Len(cards) |-> OptCardStep(cards[i])]

\* what each instrument received beyond its minimum in the pass from
\* (loans, cards) to (loans2, cards2)
BeyondMinimum(loans, cards, loans2, cards2) ==
    [i \in 1 .. Len(loans) |-> LoansAfterMinimums(loans)[i].principal - loans2[i].principal]
    \o [i \in 1 .. Len(cards) |-> CardsAfterMinimums(cards)[i].balance - cards2[i].balance]

\* the balances after minimums, loans first
BalancesAfterMinimums(loans, cards) ==
    [i \in 1 .. Len(loans) |-> LoansAfterMinimums(loans)[i].principal]
    \o [i \in 1 .. Len(cards) |-> CardsAfterMinimums(cards)[i].balance]

OneRecipient(loans, cards, loans2, cards2, monthly_budget) ==
    LET beyond == BeyondMinimum(loans, cards, loans2, cards2)
        left == BalancesAfterMinimums(loans, cards)
        extra == Extra(monthly_budget, MinimumsTotal(loans, cards))
        paid == { i \in 1 .. Len(beyond) : beyond[i] # 0 }
    IN /\ Cardinality(paid) <= 1
       /\ \A i \in paid : beyond[i] = Min(extra, left[i])
       /\ \A i \in 1 .. Len(beyond) : beyond[i] >= 0

\* C21: a pass of the avalanche loop pays one instrument at most beyond its
\* minimum, min(extra, balance after minimums), and leaves the budget of the
\* next month as it was
C21_SingleExtraRecipient ==
    [][pc = "opt_loop" /\ months' = months + 1
          => /\ OneRecipient(loans_df, cards_df, loans_df', cards_df', budget)
             /\ budget' = budget]_vars

\* after the first month: the extra was larger than what the recipient owed
\* after minimums, the recipient is paid off, and another instrument is
\* still active with exactly its balance after minimums
C21_Witness ==
    /\ pc = "opt_loop"
    /\ months = 1
    /\ LET customer_data == GetCustomerData(db, call.customer_id)
           beyond == BeyondMinimum(customer_data.loans, customer_data.cards,
                                   loans_df, cards_df)
           left == BalancesAfterMinimums(customer_data.loans, customer_data.cards)
           extra == Extra(budget, MinimumsTotal(customer_data.loans, customer_data.cards))
       IN \E i, j \in 1 .. Len(beyond) :
             /\ i # j
             /\ beyond[i] > 0
             /\ beyond[i] = left[i]
             /\ extra > left[i]
             /\ beyond[j] = 0
             /\ left[j] > 0

(***************************************************************************)
(* C22: with cure_dpd_first set, in every month with extra > 1e-6 the      *)
(* recipient is an active instrument with days_past_due > 0 whenever one   *)
(* exists, even if a non-delinquent one has a higher rate; within a tier   *)
(* (with the flag unset: among all active instruments) the recipient has   *)
(* the maximal annual rate. Activity is judged after the minimum payments. *)
(***************************************************************************)
\* the instruments after the minimum payments of the month, loans first
AfterMinimums(loans, cards) ==
    [i \in 1 .. Len(loans) |->
        [type |-> "loan", idx |-> i,
         balance |-> LoansAfterMinimums(loans)[i].principal,
         annual_rate_pct |-> loans[i].annual_rate_pct,
         days_past_due |-> loans[i].days_past_due]]
    \o [i \in 1 .. Len(cards) |->
        [type |-> "card", idx |-> i,
         balance |-> CardsAfterMinimums(cards)[i].balance,
         annual_rate_pct |-> cards[i].annual_rate_pct,
         days_past_due |-> cards[i].days_past_due]]

\* the instruments that got something beyond their minimum in the pass
Recipients(loans, cards, loans2, cards2) ==
    LET beyond == BeyondMinimum(loans, cards, loans2, cards2)
    IN { i \in 1 .. Len(beyond) : beyond[i] > 0 }

PriorityRespected(loans, cards, loans2, cards2, monthly_budget, cure_dpd_first) ==
    LET inst == AfterMinimums(loans, cards)
        active == { i \in 1 .. Len(inst) : inst[i].balance > Eps }
        delinquent == { i \in active : inst[i].days_past_due > 0 }
        extra == Extra(monthly_budget, MinimumsTotal(loans, cards))
    IN extra > Eps /\ active # {} =>
         \E r \in Recipients(loans, cards, loans2, cards2) :
            /\ r \in active
            /\ cure_dpd_first /\ delinquent # {} => r \in delinquent
            /\ \A j \in active :
                  (~cure_dpd_first \/ (j \in delinquent <=> r \in delinquent))
                      => inst[j].annual_rate_pct <= inst[r].annual_rate_pct

\* C22: every pass of the avalanche loop with extra > 1e-6 pays the extra to
\* a delinquent active instrument if the flag is set and one exists, and to
\* one of maximal rate within its tier
C22_DelinquentFirstThenRate ==
    [][pc = "opt_loop" /\ months' = months + 1
          => PriorityRespected(loans_df, cards_df, loans_df', cards_df', budget,
                               call.cure_dpd_first)]_vars

\* after the first month with the flag set: the recipient is delinquent and
\* an instrument still active after minimums, not delinquent, has a higher rate
C22_Witness ==
    /\ pc = "opt_loop"
    /\ months = 1
    /\ call.cure_dpd_first
    /\ LET customer_data == GetCustomerData(db, call.customer_id)
           inst == AfterMinimums(customer_data.loans, customer_data.cards)
       IN \E r \in Recipients(customer_data.loans, customer_data.cards, loans_df, cards_df) :
             /\ inst[r].days_past_due > 0
             /\ \E j \in 1 .. Len(inst) :
                   /\ inst[j].balance > Eps
                   /\ inst[j].days_past_due = 0
                   /\ inst[j].annual_rate_pct > inst[r].annual_rate_pct

(***************************************************************************)
(* C24: whenever simulate_minimum_payments or simulate_optimized_payments  *)
(* returns, every principal and balance of the working copy is <= 1e-6 or  *)
(* months == 1000; non-convergence is an ordinary result with months ==    *)
(* 1000, never an error; a customer whose debts are all already <= 1e-6    *)
(* gets months == 0 and total_interest == 0.                               *)
(***************************************************************************)
PaymentSimulatorEnded ==
    /\ pc = "returned"
    /\ ret.op \in {"simulate_minimum_payments", "simulate_optimized_payments"}

\* no principal and no balance of the frames is above 1e-6
AllPaid(loans, cards) ==
    /\ { i \in 1 .. Len(loans) : loans[i].principal > Eps } = {}
    /\ { i \in 1 .. Len(cards) : cards[i].balance > Eps } = {}

\* the stored debts of the customer are all paid already
NothingOwed(customer_id) ==
    LET customer_data == GetCustomerData(db, customer_id)
    IN AllPaid(customer_data.loans, customer_data.cards)

\* C24: a returned result is a converged one or has months == 1000; the only
\* error of the two simulators is the missing cashflow row, raised before the
\* loop; with nothing owed the result is (0, 0)
C24_ConvergedOrCapped ==
    PaymentSimulatorEnded =>
        /\ ret.status = "ok" =>
              /\ AllPaid(loans_df, cards_df) \/ ret.months = MaxMonths
              /\ NothingOwed(ret.customer_id) => ret.months = 0 /\ ret.total_interest = 0
        /\ ret.status # "ok" =>
              /\ ret.op = "simulate_optimized_payments"
              /\ ret.status = "ValueError"
              /\ NoCashflow(ret.customer_id)

\* a simulator returned an ordinary result after 1000 months with a debt left
C24_Witness ==
    /\ PaymentSimulatorEnded
    /\ ret.status = "ok"
    /\ ret.months = MaxMonths
    /\ ~AllPaid(loans_df, cards_df)

(***************************************************************************)
(* C25: under minimum payments a loan with principal > 0 and remaining     *)
(* term n is paid off at exactly month max(1, n): the payment recomputed   *)
(* each month from the current principal and the decremented term exceeds  *)
(* the month's interest, the principal strictly decreases every month, and *)
(* in the month where the term is 1 the payment is principal plus interest.*)
(***************************************************************************)
\* the loans of the customer as stored
StoredLoans(customer_id) == GetCustomerData(db, customer_id).loans

\* the month at which the i-th loan of the customer is due
DueMonth(customer_id, i) == Max(1, StoredLoans(customer_id)[i].remaining_term_months)

\* one pass of the minimum-payment loop over the loans that are still active
LoanSchedulePass ==
    pc = "min_loop" /\ months' = months + 1 =>
        \A i \in 1 .. Len(loans_df) :
            loans_df[i].principal > Eps =>
                LET loan == loans_df[i]
                    term == Max(1, loan.remaining_term_months)
                    interest == RoundDiv(loan.principal * loan.annual_rate_pct, RateScale)
                    payment == Pmt(loan.principal, loan.annual_rate_pct, term)
                IN /\ term = Max(1, StoredLoans(call.customer_id)[i].remaining_term_months - months)
                   /\ payment > interest
                   /\ loans_df'[i].principal < loan.principal
                   /\ term = 1 => payment = loan.principal + interest
                   /\ loans_df'[i].principal <= Eps <=> months' = DueMonth(call.customer_id, i)

\* at the return every loan that had principal > 0 is paid off, whatever its term
EveryLoanPaidOff ==
    MinimumReturnedFor(ret.customer_id) =>
        \A i \in 1 .. Len(loans_df) :
            StoredLoans(ret.customer_id)[i].principal > Eps =>
                /\ loans_df[i].principal <= Eps
                /\ ret.months >= DueMonth(ret.customer_id, i)

\* at the return every loan due within the month cap is paid off
LoansDuePaidOff ==
    MinimumReturnedFor(ret.customer_id) =>
        \A i \in 1 .. Len(loans_df) :
            /\ StoredLoans(ret.customer_id)[i].principal > Eps
            /\ DueMonth(ret.customer_id, i) <= MaxMonths
            => /\ loans_df[i].principal <= Eps
               /\ ret.months >= DueMonth(ret.customer_id, i)

TrueWithoutManager ==
    \A offer \in OfferPool, ai \in AiOutcomes :
        ~ai.manager => EvaluateConsolidationConditions(offer, ai)

\* C26: get_eligible_offers, run by a service whose AI manager is not
\* initialised, returns every offer that has non-trivial conditions and passes
\* the deterministic checks
C26_EligibleWithoutManager ==
    [][/\ pc = "elig_loop" /\ pc' = "returned"
       /\ call.op = "get_eligible_offers"
       /\ ~call.ai_manager
       => /\ TrueWithoutManager
          /\ \A i \in 1 .. Len(call.offers) :
                /\ HasConditions(call.offers[i])
                /\ CheckBasicEligibility(GetCustomerData(db, call.customer_id),
                                         call.offers[i])
                => InList(call.offers[i], ret'.eligible_offers)]_vars

\* every offer of a call without a manager has been evaluated, one of them
\* has conditions and passes the deterministic checks, and none is eligible
C26_Witness ==
    /\ pc = "elig_loop"
    /\ call.op = "get_eligible_offers"
    /\ ~call.ai_manager
    /\ elig.idx > Len(call.offers)
    /\ elig.eligible = <<>>
    /\ \E i \in 1 .. Len(call.offers) :
          /\ HasConditions(call.offers[i])
          /\ CheckBasicEligibility(GetCustomerData(db, call.customer_id), call.offers[i])

(***************************************************************************)
(* C27: the avalanche simulator applies every instrument's minimum payment *)
(* in full every month even when the budget is smaller than the sum of the *)
(* minimums; for a customer whose budget never exceeds the month's sum of  *)
(* minimums (e.g. budget 0) simulate_optimized_payments returns the same   *)
(* (months, total_interest) as simulate_minimum_payments.                  *)
(***************************************************************************)
\* a pass of the avalanche loop whose budget does not exceed the minimums
\* changes the frames as a pass of the minimum-payment loop does
PassAsMinimumPayments ==
    /\ pc = "opt_loop"
    /\ months' = months + 1
    /\ budget <= MinimumsTotal(loans_df, cards_df)
    => /\ loans_df' = [i \in 1 .. Len(loans_df) |-> MinLoanStep(loans_df[i])]
       /\ cards_df' = [i \in 1 .. Len(cards_df) |-> MinCardStep(cards_df[i])]
       /\ total_interest' = total_interest + LoanInterest(loans_df) + CardInterest(cards_df)

\* the two simulators have returned for the same customer, one call after
\* the other or inside one analyze_customer_debt
StrategyPairs ==
    IF BothStrategiesKnown
    THEN { <<[months |-> prev.months, total_interest |-> prev.total_interest],
             [months |-> ret.months, total_interest |-> ret.total_interest],
             ret.customer_id>> }
    ELSE IF AnalysisReturned
    THEN { <<ret.minimum_payment_strategy, ret.optimized_payment_strategy, ret.customer_id>> }
    ELSE {}

SameResultWithoutBudget ==
    \A pair \in StrategyPairs :
        StoredBudget(pair[3]) = 0 => pair[1] = pair[2]

\* C27: with a budget of at most the minimums a pass of the avalanche loop is
\* a pass of the minimum-payment loop, and with a budget of 0 the two
\* simulators return the same result
C27_OptimizedEqualsMinimum == []SameResultWithoutBudget /\ [][PassAsMinimumPayments]_vars

\* both simulators returned for a customer with budget 0 and debts that take
\* two months or more and bear interest
C27_Witness ==
    /\ BothStrategiesKnown
    /\ StoredBudget(ret.customer_id) = 0
    /\ InitialMinimums(ret.customer_id) > 0
    /\ ret.months >= 2
    /\ ret.total_interest > 0
    /\ ret.months = prev.months

(***************************************************************************)
(* C29: when simulate_consolidation returns no result, the endpoint        *)
(* POST /analysis/simulate-consolidation answers 404 with detail 'No       *)
(* eligible consolidation offers available'; a ValueError from the service *)
(* also yields 404, and only other failures yield 500.                     *)
(***************************************************************************)
ConsolidationRequestEnded == pc = "returned" /\ ret.op = "simulate_consolidation"

\* C29: no result and ValueError are answered with 404, other failures with 500
C29_NoResultIs404 ==
    ConsolidationRequestEnded =>
        /\ ret.status = "None" =>
              /\ http.status_code = 404
              /\ http.detail = "No eligible consolidation offers available"
        /\ ret.status = "ValueError" => http.status_code = 404
        /\ http.status_code = 500 => ret.status \notin {"ok", "None", "ValueError"}

\* the service returned no result and the endpoint answered 500
C29_Witness ==
    /\ ConsolidationRequestEnded
    /\ ret.status = "None"
    /\ http.status_code = 500

(***************************************************************************)
(* C30: the recipient of the extra payment is uniquely determined when     *)
(* several active instruments tie on the priority key: in the avalanche    *)
(* simulator (same tier, same rate) a card before a loan and, within a     *)
(* type, the lowest row index; in the consolidation simulator (same rate)  *)
(* a loan before a card and, within a type, the highest row index.         *)
(***************************************************************************)
\* the instruments of the frames as they stand, loans first
Instruments(loans, cards) ==
    [i \in 1 .. Len(loans) |->
        [type |-> "loan", idx |-> i, balance |-> loans[i].principal,
         annual_rate_pct |-> loans[i].annual_rate_pct,
         days_past_due |-> loans[i].days_past_due]]
    \o [i \in 1 .. Len(cards) |->
        [type |-> "card", idx |-> i, balance |-> cards[i].balance,
         annual_rate_pct |-> cards[i].annual_rate_pct,
         days_past_due |-> cards[i].days_past_due]]

\* a pass of the avalanche loop with extra > 1e-6: one recipient, and every
\* other active instrument of its tier and rate is a loan when the recipient
\* is a card, or of its type with a higher row index
AvalancheTieBreak(loans, cards, loans2, cards2, monthly_budget, cure_dpd_first) ==
    LET inst == AfterMinimums(loans, cards)
        active == { i \in 1 .. Len(inst) : inst[i].balance > Eps }
        extra == Extra(monthly_budget, MinimumsTotal(loans, cards))
        recipients == Recipients(loans, cards, loans2, cards2)
        Tier(i) == IF cure_dpd_first /\ inst[i].days_past_due > 0 THEN 0 ELSE 1
    IN extra > Eps /\ active # {} =>
         /\ Cardinality(recipients) = 1
         /\ \A r \in recipients, j \in active \ recipients :
               Tier(j) = Tier(r) /\ inst[j].annual_rate_pct = inst[r].annual_rate_pct
                   => \/ inst[r].type = "card" /\ inst[j].type = "loan"
                      \/ inst[r].type = inst[j].type /\ inst[r].idx < inst[j].idx

\* the choice of the consolidation loop on the frames: every other active
\* instrument of the rate of its choice is a card when the choice is a loan,
\* or of its type with a lower row index
ConsolidationTieBreak(loans, cards) ==
    LET inst == Instruments(loans, cards)
        active == { i \in 1 .. Len(inst) : inst[i].balance > Eps }
        debt == HighestRateDebt(loans, cards)
    IN active # {} =>
         \E r \in active :
            /\ inst[r].type = debt.type /\ inst[r].idx = debt.idx
            /\ \A j \in active \ {r} :
                  /\ inst[j].annual_rate_pct <= inst[r].annual_rate_pct
                  /\ inst[j].annual_rate_pct = inst[r].annual_rate_pct
                        => \/ inst[r].type = "loan" /\ inst[j].type = "card"
                           \/ inst[r].type = inst[j].type /\ inst[r].idx > inst[j].idx

\* C30: ties are broken card before loan and lowest index first by the
\* avalanche loop, loan before card and highest index first by the choice of
\* the consolidation loop
C30_TieBreaks ==
    /\ [][pc = "opt_loop" /\ months' = months + 1
             => AvalancheTieBreak(loans_df, cards_df, loans_df', cards_df', budget,
                                  call.cure_dpd_first)]_vars
    /\ [](pc = "opt_loop" => ConsolidationTieBreak(loans_df, cards_df))

\* after the first month: the recipient is a card, and a loan of the same
\* tier and rate was active after the minimums
C30_Witness ==
    /\ pc = "opt_loop"
    /\ months = 1
    /\ ~call.cure_dpd_first
    /\ LET customer_data == GetCustomerData(db, call.customer_id)
           inst == AfterMinimums(customer_data.loans, customer_data.cards)
       IN \E r \in Recipients(customer_data.loans, customer_data.cards, loans_df, cards_df) :
             /\ inst[r].type = "card"
             /\ \E j \in 1 .. Len(inst) :
                   /\ inst[j].type = "loan"
                   /\ inst[j].balance > Eps
                   /\ inst[j].annual_rate_pct = inst[r].annual_rate_pct

=============================================================================
